---- MODULE Spec2Model ----
(***************************************************************************)
(* Model of the derived-variable and descriptive-statistics code of the   *)
(* Card & Krueger (1994) replication scripts (utility.py and the table    *)
(* scripts).  A data frame is a sequence of rows; a row is a function     *)
(* from column names to values.  A numeric cell is an extended rational   *)
(* [n, d]: d > 0 is the number n/d in lowest terms, 0/0 is NaN (the       *)
(* missing value), 1/0 and -1/0 are the infinities a float division by    *)
(* zero produces.                                                         *)
(***************************************************************************)
EXTENDS Integers, Sequences, FiniteSets, TLC

VARIABLES script, pc, df, sample, arg, out

vars == <<script, pc, df, sample, arg, out>>

-----------------------------------------------------------------------------
(* Float arithmetic as pandas/numpy perform it, on extended rationals.     *)

Abs(x) == IF x < 0 THEN -x ELSE x

RECURSIVE GCD(_, _)
GCD(a, b) == IF b = 0 THEN a ELSE GCD(b, a % b)

NaN == [n |-> 0, d |-> 0]

Sign(x) == IF x > 0 THEN 1 ELSE IF x < 0 THEN -1 ELSE 0

Rat(n, d) ==
    IF d = 0 THEN [n |-> Sign(n), d |-> 0]
    ELSE LET g == GCD(Abs(n), Abs(d))
             s == IF d < 0 THEN -1 ELSE 1
         IN  [n |-> (s * n) \div g, d |-> (s * d) \div g]

Num(k) == [n |-> k, d |-> 1]

Zero == Num(0)

isna(v) == v.n = 0 /\ v.d = 0

notna(v) == ~isna(v)

IsFinite(v) == v.d > 0

Neg(a) == [n |-> -(a.n), d |-> a.d]

Add(a, b) ==
    IF isna(a) \/ isna(b) THEN NaN
    ELSE IF a.d = 0 /\ b.d = 0 THEN (IF a.n = b.n THEN a ELSE NaN)
    ELSE IF a.d = 0 THEN a
    ELSE IF b.d = 0 THEN b
    ELSE Rat(a.n * b.d + b.n * a.d, a.d * b.d)

Sub(a, b) == Add(a, Neg(b))

Mul(a, b) == Rat(a.n * b.n, a.d * b.d)

Recip(b) == IF b.n < 0 THEN [n |-> -(b.d), d |-> -(b.n)] ELSE [n |-> b.d, d |-> b.n]

Div(a, b) == Mul(a, Recip(b))

(* Comparisons are False whenever an operand is NaN. *)
Lt(a, b) == notna(a) /\ notna(b) /\ a.n * b.d < b.n * a.d

Le(a, b) == notna(a) /\ notna(b) /\ a.n * b.d <= b.n * a.d

Gt(a, b) == Lt(b, a)

Ge(a, b) == Le(b, a)

Eq(a, b) == notna(a) /\ notna(b) /\ a = b

(* Column assignment df[col] = ... on one row: the named columns are       *)
(* created or overwritten, the others are kept.                            *)
SetCols(row, cols) == cols @@ row

MapRows(F(_), frame) == [i \in DOMAIN frame |-> F(frame[i])]

-----------------------------------------------------------------------------
(* Bounds of the model and constants of the program.                       *)

MaxCount == 1

MaxWageTick == 104

NewMinimumCents == 505

PermanentlyClosed == 3

Counts == {NaN} \cup {Num(k) : k \in 0..MaxCount}

(* Starting wages: missing, a 5-cent grid from -0.05 to 0.05*MaxWageTick,  *)
(* and the cents next to the thresholds the code tests.                    *)
Wages ==
    {NaN} \cup {Rat(5 * k, 100) : k \in -1..MaxWageTick}
          \cup {Rat(c, 100) : c \in {424, 426, 499, 504, 506}}

StatusCodes == 0..5

NominalRow ==
    [CHAINr |-> 1, CO_OWNED |-> 0, STATEr |-> 1, STATUS2 |-> 1,
     EMPFT |-> Num(1), EMPPT |-> Num(1), NMGRS |-> Num(1),
     EMPFT2 |-> Num(1), EMPPT2 |-> Num(1), NMGRS2 |-> Num(1),
     WAGE_ST |-> Rat(425, 100), WAGE_ST2 |-> Rat(505, 100),
     PSODA |-> Num(1), PFRY |-> Num(1), PENTREE |-> Num(1),
     PSODA2 |-> Num(1), PFRY2 |-> Num(1), PENTREE2 |-> Num(1)]

(* Stores whose employment counts and second-wave status vary. *)
EmpStores ==
    { SetCols(NominalRow,
        [STATUS2 |-> s, EMPFT |-> f1, EMPPT |-> p1, NMGRS |-> m1,
         EMPFT2 |-> f2, EMPPT2 |-> p2, NMGRS2 |-> m2]) :
        s \in StatusCodes, f1 \in Counts, p1 \in Counts, m1 \in Counts,
        f2 \in Counts, p2 \in Counts, m2 \in Counts }

(* Stores whose second-wave status, second-wave wage and full-time counts  *)
(* vary: the columns the sample selection reads.                           *)
SampleStores ==
    { SetCols(NominalRow,
        [STATUS2 |-> s, EMPFT |-> f1, EMPFT2 |-> f2, WAGE_ST2 |-> w2]) :
        s \in StatusCodes, f1 \in Counts, f2 \in Counts,
        w2 \in {NaN, Rat(505, 100)} }

(* Stores whose item prices are present or missing. *)
PriceStores ==
    { SetCols(NominalRow,
        [PSODA |-> s1, PFRY |-> f1, PENTREE |-> e1,
         PSODA2 |-> s2, PFRY2 |-> f2, PENTREE2 |-> e2]) :
        s1 \in {NaN, Num(1)}, f1 \in {NaN, Num(1)}, e1 \in {NaN, Num(1)},
        s2 \in {NaN, Num(1)}, f2 \in {NaN, Num(2)}, e2 \in {NaN, Num(1)} }

PctAffected == {NaN, Num(50)}

(* Stores whose state, starting wage (the same in both waves) and          *)
(* percentage of affected employees vary.                                  *)
PctStores ==
    { SetCols(NominalRow,
        [STATEr |-> st, nj |-> st, WAGE_ST |-> w, WAGE_ST2 |-> w, PCTAFF |-> a]) :
        st \in {0, 1}, w \in Wages, a \in PctAffected }

(* Stores of every chain code, the codes 1..4 of the four chains and the   *)
(* codes next to them, in both states.                                     *)
ChainCodes == 0..5

ChainStores ==
    { SetCols(NominalRow, [CHAINr |-> c, STATEr |-> st]) : c \in ChainCodes, st \in {0, 1} }

(* Stores whose state and starting wage vary. *)
WageStores ==
    { SetCols(NominalRow, [STATEr |-> st, WAGE_ST |-> w]) :
        st \in {0, 1}, w \in Wages }

-----------------------------------------------------------------------------
(* utility.py: derived variables, row by row.  Pipe(e, LAMBDA r : body)    *)
(* is "r = e; body": the statements of a function run one after another.  *)

Pipe(x, F(_)) == F(x)

Half == Rat(1, 2)

Hundred == Num(100)

MinusOne == Num(-1)

Two == Num(2)

NewMinimum == Rat(NewMinimumCents, 100)

OldMinimum == Rat(425, 100)

astype_int(b) == IF b THEN 1 ELSE 0

(* full-time + part-time * weight + managers, as lines 101 and 104 add them *)
FteSum(empft, emppt, nmgrs, part_time_weight) ==
    Add(Add(empft, Mul(emppt, part_time_weight)), nmgrs)

FillZero(v) == IF isna(v) THEN Zero ELSE v

util_fte_zero_fill(row, part_time_weight) ==
    Pipe(SetCols(row, [EMPTOT |-> FteSum(FillZero(row.EMPFT), FillZero(row.EMPPT),
                                         FillZero(row.NMGRS), part_time_weight)]), LAMBDA r1 :
    Pipe(SetCols(r1, [EMPTOT2 |-> FteSum(FillZero(r1.EMPFT2), FillZero(r1.EMPPT2),
                                         FillZero(r1.NMGRS2), part_time_weight)]), LAMBDA r2 :
    Pipe(IF r2.STATUS2 = PermanentlyClosed THEN SetCols(r2, [EMPTOT2 |-> Zero]) ELSE r2, LAMBDA r3 :
         SetCols(r3, [DEMP |-> Sub(r3.EMPTOT2, r3.EMPTOT)]))))

util_fte_no_closure(row, part_time_weight) ==
    Pipe(SetCols(row, [EMPTOT |-> FteSum(row.EMPFT, row.EMPPT, row.NMGRS, part_time_weight)]), LAMBDA r1 :
    Pipe(SetCols(r1, [EMPTOT2 |-> FteSum(r1.EMPFT2, r1.EMPPT2, r1.NMGRS2, part_time_weight)]), LAMBDA r2 :
         SetCols(r2, [DEMP |-> Sub(r2.EMPTOT2, r2.EMPTOT)])))

(* The default weight whatever weight is supplied. *)
util_fte_default_weight(row, part_time_weight) ==
    Pipe(SetCols(row, [EMPTOT |-> FteSum(row.EMPFT, row.EMPPT, row.NMGRS, Half)]), LAMBDA r1 :
    Pipe(SetCols(r1, [EMPTOT2 |-> FteSum(r1.EMPFT2, r1.EMPPT2, r1.NMGRS2, Half)]), LAMBDA r2 :
    Pipe(IF r2.STATUS2 = PermanentlyClosed THEN SetCols(r2, [EMPTOT2 |-> Zero]) ELSE r2, LAMBDA r3 :
         SetCols(r3, [DEMP |-> Sub(r3.EMPTOT2, r3.EMPTOT)]))))

util_calculate_fte_employment(row, part_time_weight) ==
    Pipe(SetCols(row, [EMPTOT |-> FteSum(row.EMPFT, row.EMPPT, row.NMGRS, part_time_weight)]), LAMBDA r1 :
    Pipe(SetCols(r1, [EMPTOT2 |-> FteSum(r1.EMPFT2, r1.EMPPT2, r1.NMGRS2, part_time_weight)]), LAMBDA r2 :
    Pipe(IF r2.STATUS2 = PermanentlyClosed THEN SetCols(r2, [EMPTOT2 |-> Zero]) ELSE r2, LAMBDA r3 :
         SetCols(r3, [DEMP |-> Sub(r3.EMPTOT2, r3.EMPTOT)]))))

ChainDummies(chain) ==
    [bk     |-> astype_int(chain = 1),
     kfc    |-> astype_int(chain = 2),
     roys   |-> astype_int(chain = 3),
     wendys |-> astype_int(chain = 4)]

(* Every store counted as the first chain. *)
util_chain_dummies_first(row) ==
    SetCols(row, [bk |-> 1, kfc |-> astype_int(row.CHAINr = 2),
                  roys |-> astype_int(row.CHAINr = 3), wendys |-> astype_int(row.CHAINr = 4)])

util_calculate_chain_dummies(row) == SetCols(row, ChainDummies(row.CHAINr))

(* The two indicators exchanged. *)
util_state_indicators_swapped(row) ==
    SetCols(row, [nj |-> 1 - row.STATEr, pa |-> row.STATEr])

util_calculate_state_indicators(row) ==
    SetCols(row, [nj |-> row.STATEr, pa |-> 1 - row.STATEr])

(* (5.05 - WAGE_ST) / WAGE_ST *)
GapRatio(wage) == Div(Sub(NewMinimum, wage), wage)

GapRatioOfMinimum(wage) == Div(Sub(NewMinimum, wage), NewMinimum)

util_wage_gap_wrong_ratio(row) ==
    SetCols(row, [gap |-> IF row.STATEr = 1 /\ Lt(row.WAGE_ST, NewMinimum) /\ Gt(row.WAGE_ST, Zero)
                          THEN GapRatioOfMinimum(row.WAGE_ST) ELSE Zero])

util_calculate_wage_gap(row) ==
    LET nj_mask         == row.STATEr = 1
        wage_low_mask   == Lt(row.WAGE_ST, NewMinimum)
        wage_valid_mask == Gt(row.WAGE_ST, Zero)
        gap_mask        == nj_mask /\ wage_low_mask /\ wage_valid_mask
    IN  SetCols(row, [gap |-> IF gap_mask THEN GapRatio(row.WAGE_ST) ELSE Zero])

LowWage == Rat(425, 100)

MidWageFrom == Rat(426, 100)

MidWageTo == Rat(499, 100)

HighWageFrom == Rat(500, 100)

(* A middle group that starts at the low wage. *)
util_wage_groups_overlapping(row) ==
    SetCols(row,
        [NJ_wage_425     |-> astype_int(row.STATEr = 1 /\ Eq(row.WAGE_ST, LowWage)),
         NJ_wage_426_499 |-> astype_int(row.STATEr = 1 /\ Ge(row.WAGE_ST, LowWage)
                                                       /\ Le(row.WAGE_ST, MidWageTo)),
         NJ_wage_500plus |-> astype_int(row.STATEr = 1 /\ Ge(row.WAGE_ST, HighWageFrom))])

util_create_wage_groups(row) ==
    SetCols(row,
        [NJ_wage_425     |-> astype_int(row.STATEr = 1 /\ Eq(row.WAGE_ST, LowWage)),
         NJ_wage_426_499 |-> astype_int(row.STATEr = 1 /\ Ge(row.WAGE_ST, MidWageFrom)
                                                       /\ Le(row.WAGE_ST, MidWageTo)),
         NJ_wage_500plus |-> astype_int(row.STATEr = 1 /\ Ge(row.WAGE_ST, HighWageFrom))])

(* df[df['nj'] == 1] and df[df['nj'] == 0] *)
util_filter_by_state(frame, state) ==
    IF state = "nj" THEN SelectSeq(frame, LAMBDA r : r.nj = 1)
    ELSE SelectSeq(frame, LAMBDA r : r.nj = 0)

MealSum(soda, fry, entree) == Add(Add(soda, fry), entree)

(* A missing item price counted as 0. *)
util_meal_prices_fill_zero(row) ==
    SetCols(row, [PMEAL  |-> MealSum(FillZero(row.PSODA), FillZero(row.PFRY), FillZero(row.PENTREE)),
                  PMEAL2 |-> MealSum(FillZero(row.PSODA2), FillZero(row.PFRY2), FillZero(row.PENTREE2))])

util_calculate_meal_prices(row) ==
    SetCols(row, [PMEAL  |-> MealSum(row.PSODA, row.PFRY, row.PENTREE),
                  PMEAL2 |-> MealSum(row.PSODA2, row.PFRY2, row.PENTREE2)])

(* np.where(total > 0, full_time / total * 100, nan) *)
FracFt(empft, emptot) ==
    IF Gt(emptot, Zero) THEN Mul(Div(empft, emptot), Hundred) ELSE NaN

(* A step that recomputes the wave-2 total from the raw counts. *)
util_full_time_percentage_recomputes_fte(row) ==
    Pipe(SetCols(row, [EMPTOT2 |-> FteSum(row.EMPFT2, row.EMPPT2, row.NMGRS2, Half)]), LAMBDA r1 :
         SetCols(r1, [FRACFT  |-> FracFt(r1.EMPFT, r1.EMPTOT),
                      FRACFT2 |-> FracFt(r1.EMPFT2, r1.EMPTOT2)]))

util_calculate_full_time_percentage(row) ==
    SetCols(row, [FRACFT  |-> FracFt(row.EMPFT, row.EMPTOT),
                  FRACFT2 |-> FracFt(row.EMPFT2, row.EMPTOT2)])

(* 2 * (E2 - E1) / (E2 + E1) *)
PropChange(e1, e2) == Div(Mul(Two, Sub(e2, e1)), Add(e2, e1))

util_prop_change_no_floor(row) ==
    SetCols(row, [PCHEMPC |-> PropChange(row.EMPTOT, row.EMPTOT2)])

(* The floor also where the wave-1 employment is 0. *)
util_prop_change_floor_either(row) ==
    Pipe(SetCols(row, [PCHEMPC |-> PropChange(row.EMPTOT, row.EMPTOT2)]), LAMBDA r1 :
         IF Eq(r1.EMPTOT2, Zero) \/ Eq(r1.EMPTOT, Zero)
         THEN SetCols(r1, [PCHEMPC |-> MinusOne]) ELSE r1)

util_calculate_proportional_change(row) ==
    Pipe(SetCols(row, [PCHEMPC |-> PropChange(row.EMPTOT, row.EMPTOT2)]), LAMBDA r1 :
         IF Eq(r1.EMPTOT2, Zero) THEN SetCols(r1, [PCHEMPC |-> MinusOne]) ELSE r1)

(* The two trailing assignments of create_basic_derived_variables. *)
util_dwage_and_closed(row) ==
    SetCols(row, [dwage  |-> Sub(row.WAGE_ST2, row.WAGE_ST),
                  CLOSED |-> astype_int(row.STATUS2 = PermanentlyClosed)])

-----------------------------------------------------------------------------
(* utility.py: sample preparation, on a whole frame.                       *)

TempClosedRenovation == 2

util_zero_temp_closed(row) ==
    IF row.STATUS2 = TempClosedRenovation
    THEN Pipe(SetCols(row, [EMPFT2 |-> Zero, EMPPT2 |-> Zero,
                            NMGRS2 |-> Zero, EMPTOT2 |-> Zero]), LAMBDA r1 :
         Pipe(SetCols(r1, [DEMP |-> Sub(r1.EMPTOT2, r1.EMPTOT)]), LAMBDA r2 :
              SetCols(r2, [dwage |-> Zero])))
    ELSE row

util_sample_keep(row) ==
    row.CLOSED = 1 \/ (row.CLOSED = 0 /\ notna(row.dwage))

NotRenovation(row) == row.STATUS2 # TempClosedRenovation

HasDemp(row) == notna(row.DEMP)

util_sample_no_dropna(frame, include_temp_closed) ==
    Pipe(IF ~include_temp_closed THEN SelectSeq(frame, NotRenovation)
         ELSE MapRows(util_zero_temp_closed, frame), LAMBDA s1 :
         SelectSeq(s1, util_sample_keep))

util_create_analysis_sample(frame, include_temp_closed) ==
    Pipe(IF ~include_temp_closed THEN SelectSeq(frame, NotRenovation)
         ELSE MapRows(util_zero_temp_closed, frame), LAMBDA s1 :
    Pipe(SelectSeq(s1, HasDemp), LAMBDA s2 :
         SelectSeq(s2, util_sample_keep)))

(* sample = df.copy(): the function writes into its own copy, here the     *)
(* frame `worked` after its writes, and the frame of the caller keeps its  *)
(* value.  A call gives the caller's frame after it and the result.        *)
CallOnAlias(frame, worked, result) == [df |-> worked, result |-> result]

CallOnCopy(frame, worked, result) == [df |-> frame, result |-> result]

BothWavesValid(row) == notna(row.EMPTOT) /\ notna(row.EMPTOT2)

util_create_balanced_sample(frame) == SelectSeq(frame, BothWavesValid)

-----------------------------------------------------------------------------
(* table_5/replicate.py: prepare_sample_with_temp_closed.                  *)

t5_zero_temp_closed(row) ==
    IF row.STATUS2 = TempClosedRenovation
    THEN Pipe(SetCols(row, [EMPFT2 |-> Zero, EMPPT2 |-> Zero,
                            NMGRS2 |-> Zero, EMPTOT2 |-> Zero]), LAMBDA r1 :
         Pipe(SetCols(r1, [DEMP |-> Sub(r1.EMPTOT2, r1.EMPTOT)]), LAMBDA r2 :
              SetCols(r2, [PCHEMPC |-> MinusOne, dwage |-> Zero])))
    ELSE row

t5_prepare_sample_with_temp_closed(frame) ==
    Pipe(MapRows(t5_zero_temp_closed, frame), LAMBDA s1 :
    Pipe(SelectSeq(s1, HasDemp), LAMBDA s2 :
         SelectSeq(s2, util_sample_keep)))

-----------------------------------------------------------------------------
(* table_5/replicate.py, run_specification_tests, specification 3:         *)
(* employment without managers, on the rows of base_sample.                *)

t5_no_mgr_columns(row) ==
    Pipe(SetCols(row, [EMPTOT_NO_MGR  |-> Add(Mul(row.EMPPT, Half), row.EMPFT)]), LAMBDA r1 :
    Pipe(SetCols(r1,  [EMPTOT2_NO_MGR |-> Add(Mul(r1.EMPPT2, Half), r1.EMPFT2)]), LAMBDA r2 :
    Pipe(SetCols(r2,  [DEMP_NO_MGR    |-> Sub(r2.EMPTOT2_NO_MGR, r2.EMPTOT_NO_MGR)]), LAMBDA r3 :
         SetCols(r3,  [PCHEMPC_NO_MGR |-> PropChange(r3.EMPTOT_NO_MGR, r3.EMPTOT2_NO_MGR)]))))

t5_specification_3(row) ==
    Pipe(t5_no_mgr_columns(row), LAMBDA r4 :
         IF Eq(r4.EMPTOT2_NO_MGR, Zero)
         THEN SetCols(r4, [PCHEMPC_NO_MGR |-> MinusOne]) ELSE r4)

-----------------------------------------------------------------------------
(* Table_2/analysis.py: scalar helpers and the closure handling of main.   *)
(* Its reader names the state and chain columns STATE and CHAIN.           *)

TempClosedCodes == {2, 4, 5}

T2a_calculate_fte_employment(empft, emppt, nmgrs) ==
    IF isna(empft) \/ isna(emppt) \/ isna(nmgrs) THEN NaN
    ELSE Add(Add(empft, nmgrs), Mul(emppt, Half))

T2a_close_stores(row) ==
    Pipe(IF row.STATUS2 = PermanentlyClosed
         THEN SetCols(row, [EMPFT2 |-> Zero, EMPPT2 |-> Zero, NMGRS2 |-> Zero])
         ELSE row, LAMBDA r1 :
         IF r1.STATUS2 \in TempClosedCodes
         THEN SetCols(r1, [EMPFT2 |-> NaN, EMPPT2 |-> NaN, NMGRS2 |-> NaN])
         ELSE r1)

T2a_fte_columns(row) ==
    SetCols(row,
        [FTE1 |-> T2a_calculate_fte_employment(row.EMPFT, row.EMPPT, row.NMGRS),
         FTE2 |-> T2a_calculate_fte_employment(row.EMPFT2, row.EMPPT2, row.NMGRS2)])

T2a_calculate_pct_fulltime(empft, emppt, nmgrs) ==
    IF isna(empft) \/ isna(emppt) \/ isna(nmgrs) THEN NaN
    ELSE IF Add(Add(empft, emppt), nmgrs) = Zero THEN NaN
    ELSE Mul(Div(empft, Add(Add(empft, emppt), nmgrs)), Hundred)

Tolerance == Rat(1, 100)

(* abs() of a number that is not missing *)
AbsVal(x) == IF x.n < 0 THEN Neg(x) ELSE x

(* abs(wage - target_wage) < 0.01 in binary floating point, for wages in   *)
(* whole cents and the targets 4.25 and 5.05: a wage one cent from the     *)
(* target gives abs(4.26 - 4.25) = 0.00999999999999979, which is below     *)
(* 0.01, and two cents or more give at least 0.0199.                       *)
FloatWithinTolerance(wage, target_wage) ==
    Le(AbsVal(Sub(wage, target_wage)), Tolerance)

T2a_calculate_wage_percentage(wage, target_wage) ==
    IF isna(wage) THEN NaN
    ELSE IF FloatWithinTolerance(wage, target_wage) THEN Hundred ELSE Zero

T2a_calculate_price_full_meal(psoda, pfry, pentree) ==
    IF isna(psoda) \/ isna(pfry) \/ isna(pentree) THEN NaN
    ELSE Add(Add(psoda, pfry), pentree)

(* main: the columns the wave-1 and wave-2 means are taken of. *)
T2a_mean_columns(row) ==
    SetCols(row,
        [PCT_FT1 |-> T2a_calculate_pct_fulltime(row.EMPFT, row.EMPPT, row.NMGRS),
         PCT_FT2 |-> T2a_calculate_pct_fulltime(row.EMPFT2, row.EMPPT2, row.NMGRS2),
         WAGE_425_1 |-> T2a_calculate_wage_percentage(row.WAGE_ST, OldMinimum),
         WAGE_425_2 |-> T2a_calculate_wage_percentage(row.WAGE_ST2, OldMinimum),
         WAGE_505_2 |-> T2a_calculate_wage_percentage(row.WAGE_ST2, NewMinimum),
         MEAL_PRICE1 |-> T2a_calculate_price_full_meal(row.PSODA, row.PFRY, row.PENTREE),
         MEAL_PRICE2 |-> T2a_calculate_price_full_meal(row.PSODA2, row.PFRY2, row.PENTREE2)])

-----------------------------------------------------------------------------
(* calculate_wage_percentages of table_2/replicate.py and of utility.py.   *)

(* np.where(df[wage_col] == target, 100.0, 0.0): a missing wage is unequal *)
WageEquals(wage, target_wage) == IF Eq(wage, target_wage) THEN Hundred ELSE Zero

WaveWage(row, wave) == IF wave = "1" THEN row.WAGE_ST ELSE row.WAGE_ST2

t2_calculate_wage_percentages(frame, wave) ==
    [wage_425_pct |-> [i \in DOMAIN frame |-> WageEquals(WaveWage(frame[i], wave), OldMinimum)],
     wage_505_pct |-> IF wave = "2"
                      THEN [i \in DOMAIN frame |-> WageEquals(WaveWage(frame[i], wave), NewMinimum)]
                      ELSE "None"]

NearMinimum == Rat(475, 100)

(* np.maximum(0, 100.0 - 2 * (wage - 4.25) * 100) *)
ShareStillAtMinimum(wage) ==
    Pipe(Sub(Hundred, Mul(Mul(Two, Sub(wage, OldMinimum)), Hundred)), LAMBDA share :
         IF Lt(share, Zero) THEN Zero ELSE share)

(* 100.0 - np.where(df['PCTAFF'].notna(), df['PCTAFF'] * 0.2, 20.0) *)
ShareRaised(pctaff) ==
    Sub(Hundred, IF notna(pctaff) THEN Mul(pctaff, Rat(2, 10)) ELSE Num(20))

util_wage_pct_425(row, wage, wave) ==
    IF wave = "1"
    THEN IF Eq(wage, OldMinimum)
         THEN (IF notna(row.PCTAFF) THEN row.PCTAFF ELSE Hundred)
         ELSE IF Gt(wage, OldMinimum) /\ Le(wage, NearMinimum)
              THEN ShareStillAtMinimum(wage) ELSE Zero
    ELSE IF row.nj = 0 /\ Le(wage, OldMinimum) THEN Hundred
         ELSE IF row.nj = 0 /\ Gt(wage, OldMinimum) /\ Le(wage, NearMinimum)
              THEN ShareStillAtMinimum(wage) ELSE Zero

util_wage_pct_505(row, wage, wave) ==
    IF wave = "1"
    THEN (IF Ge(wage, NewMinimum) THEN Hundred ELSE Zero)
    ELSE IF Eq(wage, NewMinimum) THEN Hundred
         ELSE IF Ge(wage, OldMinimum) /\ Lt(wage, NewMinimum) /\ row.nj = 1
              THEN ShareRaised(row.PCTAFF) ELSE Zero

util_wage_pct(row, target_wage, wave) ==
    IF target_wage = OldMinimum THEN util_wage_pct_425(row, WaveWage(row, wave), wave)
    ELSE IF target_wage = NewMinimum THEN util_wage_pct_505(row, WaveWage(row, wave), wave)
    ELSE WageEquals(WaveWage(row, wave), target_wage)

util_calculate_wage_percentages(frame, target_wage, wave) ==
    [i \in DOMAIN frame |-> util_wage_pct(frame[i], target_wage, wave)]

-----------------------------------------------------------------------------
(* table_2/replicate.py: calculate_derived_variables.                      *)

t2_calculate_derived_variables(row) ==
    Pipe(SetCols(row, [EMPTOT  |-> FteSum(row.EMPFT, row.EMPPT, row.NMGRS, Half),
                       EMPTOT2 |-> FteSum(row.EMPFT2, row.EMPPT2, row.NMGRS2, Half)]), LAMBDA r1 :
    Pipe(IF r1.STATUS2 = PermanentlyClosed THEN SetCols(r1, [EMPTOT2 |-> Zero]) ELSE r1, LAMBDA r2 :
    Pipe(IF r2.STATUS2 \in TempClosedCodes THEN SetCols(r2, [EMPTOT2 |-> NaN]) ELSE r2, LAMBDA r3 :
    Pipe(SetCols(r3, [FRACFT  |-> FracFt(r3.EMPFT, r3.EMPTOT),
                      FRACFT2 |-> FracFt(r3.EMPFT2, r3.EMPTOT2)]), LAMBDA r4 :
    Pipe(SetCols(r4, [PMEAL  |-> MealSum(r4.PSODA, r4.PFRY, r4.PENTREE),
                      PMEAL2 |-> MealSum(r4.PSODA2, r4.PFRY2, r4.PENTREE2)]), LAMBDA r5 :
    Pipe(SetCols(r5, ChainDummies(r5.CHAINr)), LAMBDA r6 :
         SetCols(r6, [nj |-> r6.STATEr])))))))

-----------------------------------------------------------------------------
(* The wage-gap blocks of the table scripts.                               *)

t4_gap(row) ==
    LET nj_mask         == row.STATEr = 1
        wage_low_mask   == Lt(row.WAGE_ST, NewMinimum)
        wage_valid_mask == Gt(row.WAGE_ST, Zero)
        gap_mask        == nj_mask /\ wage_low_mask /\ wage_valid_mask
    IN  SetCols(row, [gap |-> IF gap_mask THEN GapRatio(row.WAGE_ST) ELSE Zero])

t6_gap(row) ==
    LET mask_nj       == row.STATEr = 1
        mask_wage_low == Lt(row.WAGE_ST, NewMinimum)
        mask_wage_pos == Gt(row.WAGE_ST, Zero)
    IN  SetCols(row, [gap |-> IF mask_nj /\ mask_wage_low /\ mask_wage_pos
                              THEN GapRatio(row.WAGE_ST) ELSE Zero])

t5b_gap(row) ==
    LET mask_nj       == row.STATEr = 1
        mask_wage_low == Lt(row.WAGE_ST, NewMinimum)
        mask_wage_pos == Gt(row.WAGE_ST, Zero)
    IN  IF ~mask_wage_pos THEN SetCols(row, [gap |-> NaN])
        ELSE SetCols(row, [gap |-> IF mask_nj /\ mask_wage_low /\ mask_wage_pos
                                   THEN GapRatio(row.WAGE_ST) ELSE Zero])

(* table_7 reads the state column as STATE and writes the gap as GAP. *)
t7_gap(row) ==
    LET mask_state     == row.STATE # 0
        mask_wage_high == Ge(row.WAGE_ST, NewMinimum)
        mask_wage_pos  == Gt(row.WAGE_ST, Zero)
    IN  IF ~mask_wage_pos THEN SetCols(row, [GAP |-> NaN])
        ELSE SetCols(row, [GAP |-> IF mask_state /\ ~mask_wage_high /\ mask_wage_pos
                                   THEN GapRatio(row.WAGE_ST) ELSE Zero])

t4_create_variables(row) ==
    Pipe(SetCols(row, [EMPTOT  |-> Add(Add(Mul(row.EMPPT, Half), row.EMPFT), row.NMGRS),
                       EMPTOT2 |-> Add(Add(Mul(row.EMPPT2, Half), row.EMPFT2), row.NMGRS2)]), LAMBDA r1 :
    Pipe(SetCols(r1, [DEMP  |-> Sub(r1.EMPTOT2, r1.EMPTOT),
                      dwage |-> Sub(r1.WAGE_ST2, r1.WAGE_ST),
                      nj    |-> r1.STATEr]), LAMBDA r2 :
    Pipe(t4_gap(r2), LAMBDA r3 :
         SetCols(r3, [bk     |-> astype_int(r3.CHAINr = 1),
                      kfc    |-> astype_int(r3.CHAINr = 2),
                      roys   |-> astype_int(r3.CHAINr = 3),
                      CLOSED |-> astype_int(r3.STATUS2 = PermanentlyClosed)]))))

t5b_create_derived_variables(row) ==
    Pipe(SetCols(row, [EMPTOT  |-> Add(Add(Mul(row.EMPPT, Half), row.EMPFT), row.NMGRS),
                       EMPTOT2 |-> Add(Add(Mul(row.EMPPT2, Half), row.EMPFT2), row.NMGRS2)]), LAMBDA r1 :
    Pipe(SetCols(r1, [DEMP |-> Sub(r1.EMPTOT2, r1.EMPTOT)]), LAMBDA r2 :
    Pipe(SetCols(r2, [PCHEMPC |-> PropChange(r2.EMPTOT, r2.EMPTOT2)]), LAMBDA r3 :
    Pipe(IF Eq(r3.EMPTOT2, Zero) THEN SetCols(r3, [PCHEMPC |-> MinusOne]) ELSE r3, LAMBDA r4 :
    Pipe(t5b_gap(r4), LAMBDA r5 :
    Pipe(SetCols(r5, [nj |-> r5.STATEr]), LAMBDA r6 :
    Pipe(SetCols(r6, ChainDummies(r6.CHAINr)), LAMBDA r7 :
         SetCols(r7, [CLOSED |-> astype_int(r7.STATUS2 = PermanentlyClosed),
                      dwage  |-> Sub(r7.WAGE_ST2, r7.WAGE_ST)]))))))))

(* table_7, create_variables: the filter to completed second interviews   *)
(* that opens the function.                                                *)
CompletedInterview == 1

IsCompleted(row) == row.STATUS2 = CompletedInterview

t7_completed(frame) == SelectSeq(frame, IsCompleted)

(* The readers that name the columns STATE and CHAIN. *)
NamedStateChain(row) ==
    [c \in (DOMAIN row \ {"STATEr", "CHAINr"}) \cup {"STATE", "CHAIN"} |->
        IF c = "STATE" THEN row.STATEr ELSE IF c = "CHAIN" THEN row.CHAINr ELSE row[c]]

-----------------------------------------------------------------------------
(* Spec: the derived-variable code of each script on a frame of one store. *)
(* script names the program that runs; pc is its position.                 *)

NoArg == [part_time_weight |-> Half, include_temp_closed |-> FALSE]

UtilityStores ==
    EmpStores \cup SampleStores \cup WageStores \cup PriceStores \cup ChainStores

Table2aStores == {NamedStateChain(r) : r \in EmpStores \cup PriceStores \cup PctStores}

Table3FteStores == {NamedStateChain(r) : r \in EmpStores}

Table7Stores == {NamedStateChain(r) : r \in WageStores}

Init ==
    /\ \/ script = "utility" /\ \E r \in UtilityStores : df = <<r>>
       \/ script = "Table_2" /\ \E r \in Table2aStores : df = <<r>>
       \/ script = "table_2" /\ \E r \in EmpStores : df = <<r>>
       \/ script = "table_3" /\ \E r \in Table3FteStores \cup Table7Stores : df = <<r>>
       \/ script = "wage_pct" /\ \E r \in PctStores : df = <<r>>
       \/ script = "table_4" /\ \E r \in WageStores \cup SampleStores : df = <<r>>
       \/ script = "table_6" /\ \E r \in WageStores : df = <<r>>
       \/ script = "table_5b" /\ \E r \in WageStores \cup EmpStores : df = <<r>>
       \/ script = "table_7" /\ \E r \in Table7Stores : df = <<r>>
    /\ pc = "raw"
    /\ sample = <<>>
    /\ arg = NoArg
    /\ out = <<>>

(* utility.create_basic_derived_variables, one call after the other. *)
CalculateFteEmployment ==
    /\ script = "utility" /\ pc = "raw"
    /\ \E w \in {arg.part_time_weight} :
          df' = MapRows(LAMBDA r : util_calculate_fte_employment(r, w), df)
    /\ pc' = "fte"
    /\ UNCHANGED <<script, sample, arg, out>>

CalculateChainDummies ==
    /\ script = "utility" /\ pc = "fte"
    /\ df' = MapRows(util_calculate_chain_dummies, df)
    /\ pc' = "chain"
    /\ UNCHANGED <<script, sample, arg, out>>

CalculateStateIndicators ==
    /\ script = "utility" /\ pc = "chain"
    /\ df' = MapRows(util_calculate_state_indicators, df)
    /\ pc' = "state"
    /\ UNCHANGED <<script, sample, arg, out>>

CalculateWageGap ==
    /\ script = "utility" /\ pc = "state"
    /\ df' = MapRows(util_calculate_wage_gap, df)
    /\ pc' = "gap"
    /\ UNCHANGED <<script, sample, arg, out>>

CalculateMealPrices ==
    /\ script = "utility" /\ pc = "gap"
    /\ df' = MapRows(util_calculate_meal_prices, df)
    /\ pc' = "meal"
    /\ UNCHANGED <<script, sample, arg, out>>

CalculateFullTimePercentage ==
    /\ script = "utility" /\ pc = "meal"
    /\ df' = MapRows(util_calculate_full_time_percentage, df)
    /\ pc' = "fracft"
    /\ UNCHANGED <<script, sample, arg, out>>

CalculateProportionalChange ==
    /\ script = "utility" /\ pc = "fracft"
    /\ df' = MapRows(util_calculate_proportional_change, df)
    /\ pc' = "pchempc"
    /\ UNCHANGED <<script, sample, arg, out>>

CreateBasicDerivedVariablesEnd ==
    /\ script = "utility" /\ pc = "pchempc"
    /\ df' = MapRows(util_dwage_and_closed, df)
    /\ pc' = "derived"
    /\ UNCHANGED <<script, sample, arg, out>>

CreateWageGroups ==
    /\ script = "utility" /\ pc = "derived"
    /\ df' = MapRows(util_create_wage_groups, df)
    /\ pc' = "wage_groups"
    /\ UNCHANGED <<script, sample, arg, out>>

FilterByState ==
    /\ script = "utility" /\ pc = "derived"
    /\ \E state \in {"nj", "pa"} :
          /\ arg' = [state |-> state]
          /\ out' = util_filter_by_state(df, state)
    /\ pc' = "filtered"
    /\ UNCHANGED <<script, df, sample>>

CreateAnalysisSample ==
    /\ script \in {"utility", "table_5"} /\ pc = "derived"
    /\ \E include_temp_closed \in BOOLEAN :
          \E call \in {CallOnCopy(df,
                           IF include_temp_closed
                           THEN MapRows(util_zero_temp_closed, df) ELSE df,
                           util_create_analysis_sample(df, include_temp_closed))} :
              /\ arg' = [arg EXCEPT !.include_temp_closed = include_temp_closed]
              /\ df' = call.df
              /\ sample' = call.result
    /\ pc' = "sample"
    /\ UNCHANGED <<script, out>>

CreateBalancedSample ==
    /\ script \in {"utility", "table_5"} /\ pc = "derived"
    /\ \E call \in {CallOnCopy(df, df, util_create_balanced_sample(df))} :
          /\ df' = call.df
          /\ sample' = call.result
    /\ pc' = "balanced"
    /\ UNCHANGED <<script, arg, out>>

(* table_5 specification 2 *)
Table5PrepareSampleWithTempClosed ==
    /\ script \in {"utility", "table_5"} /\ pc = "derived"
    /\ \E call \in {CallOnCopy(df, MapRows(t5_zero_temp_closed, df),
                                 t5_prepare_sample_with_temp_closed(df))} :
          /\ df' = call.df
          /\ sample' = call.result
    /\ pc' = "sample2"
    /\ UNCHANGED <<script, arg, out>>

(* table_5 specifications 4 and 5: util.calculate_fte_employment(df,       *)
(* part_time_weight=0.4) and (..., 0.6) on the derived data.               *)
SensitivityWeights == {Rat(2, 5), Rat(3, 5)}

Table5ReweightFte ==
    /\ script = "utility" /\ pc = "derived"
    /\ \E w \in SensitivityWeights :
          /\ arg' = [arg EXCEPT !.part_time_weight = w]
          /\ df' = MapRows(LAMBDA r : util_calculate_fte_employment(r, w), df)
    /\ pc' = "reweighted"
    /\ UNCHANGED <<script, sample, out>>

(* table_4/replicate.py create_analysis_sample: no treatment of the        *)
(* temporarily closed stores, the two filters only.                        *)
t4_create_analysis_sample(frame) ==
    Pipe(SelectSeq(frame, LAMBDA r : notna(r.DEMP)), LAMBDA c1 :
         SelectSeq(c1, LAMBDA r : r.CLOSED = 1 \/ (r.CLOSED = 0 /\ notna(r.dwage))))

Table4CreateAnalysisSample ==
    /\ script = "table_4" /\ pc = "derived"
    /\ \E call \in {CallOnCopy(df, df, t4_create_analysis_sample(df))} :
          /\ df' = call.df
          /\ sample' = call.result
    /\ pc' = "sample"
    /\ UNCHANGED <<script, arg, out>>

(* table_5 specifications 4 and 5: the sample handed to the four           *)
(* regressions of the row and the names of their two response variables,   *)
(* which the step leaves in sample and arg.                                *)
Regressions(frame, change, proportional) ==
    [sample |-> frame, change |-> change, proportional |-> proportional]

(* replicate.py: the frame is re-weighted and sampled, the proportional    *)
(* change of the re-weighted totals is stored as PCHEMPC_04 or PCHEMPC_06, *)
(* and the formulas name DEMP and PCHEMPC.                                 *)
t5_specification_4_5(frame, part_time_weight) ==
    Pipe(util_create_analysis_sample(
            MapRows(LAMBDA r : util_calculate_fte_employment(r, part_time_weight), frame),
            FALSE), LAMBDA sample4 :
    Pipe(MapRows(LAMBDA r :
            IF part_time_weight = Rat(2, 5)
            THEN SetCols(r, [PCHEMPC_04 |-> util_calculate_proportional_change(r).PCHEMPC])
            ELSE SetCols(r, [PCHEMPC_06 |-> util_calculate_proportional_change(r).PCHEMPC]),
            sample4), LAMBDA sample4b :
         Regressions(sample4b, "DEMP", "PCHEMPC")))

(* replicate_table5.py, prepare_base_sample *)
t5b_base_keep(row) ==
    \/ row.CLOSED = 1
    \/ row.CLOSED = 0 /\ notna(row.dwage)

t5b_prepare_base_sample(frame) ==
    Pipe(SelectSeq(frame, LAMBDA r : r.STATUS2 # TempClosedRenovation), LAMBDA s1 :
    Pipe(SelectSeq(s1, LAMBDA r : notna(r.DEMP)), LAMBDA s2 :
         SelectSeq(s2, t5b_base_keep)))

(* replicate_table5.py: the weighted totals, their change and their        *)
(* proportional change are new columns of a copy of base_sample, and the   *)
(* formulas name them.                                                     *)
t5b_weighted_columns(row, part_time_weight) ==
    Pipe([tot  |-> Add(Add(Mul(row.EMPPT, part_time_weight), row.EMPFT), row.NMGRS),
          tot2 |-> Add(Add(Mul(row.EMPPT2, part_time_weight), row.EMPFT2), row.NMGRS2)],
         LAMBDA e :
    Pipe(e @@
         [demp |-> Sub(e.tot2, e.tot),
          pch  |-> IF Eq(e.tot2, Zero) THEN MinusOne ELSE PropChange(e.tot, e.tot2)],
         LAMBDA c :
         IF part_time_weight = Rat(2, 5)
         THEN SetCols(row, [EMPTOT_04 |-> c.tot, EMPTOT2_04 |-> c.tot2,
                            DEMP_04 |-> c.demp, PCHEMPC_04 |-> c.pch])
         ELSE SetCols(row, [EMPTOT_06 |-> c.tot, EMPTOT2_06 |-> c.tot2,
                            DEMP_06 |-> c.demp, PCHEMPC_06 |-> c.pch])))

t5b_specification_4_5(frame, part_time_weight) ==
    Pipe(MapRows(LAMBDA r : t5b_weighted_columns(r, part_time_weight),
                 t5b_prepare_base_sample(frame)), LAMBDA sample4 :
         IF part_time_weight = Rat(2, 5)
         THEN Regressions(sample4, "DEMP_04", "PCHEMPC_04")
         ELSE Regressions(sample4, "DEMP_06", "PCHEMPC_06"))

Table5Specification45 ==
    /\ script = "utility" /\ pc = "derived"
    /\ \E w \in SensitivityWeights :
          \E run \in {t5_specification_4_5(df, w)} :
              /\ sample' = run.sample
              /\ arg' = [change |-> run.change, proportional |-> run.proportional]
                            @@ [arg EXCEPT !.part_time_weight = w]
    /\ pc' = "spec45"
    /\ UNCHANGED <<script, df, out>>

Table5bSpecification45 ==
    /\ script = "table_5b" /\ pc = "derived"
    /\ \E w \in SensitivityWeights :
          \E run \in {t5b_specification_4_5(df, w)} :
              /\ sample' = run.sample
              /\ arg' = [change |-> run.change, proportional |-> run.proportional]
                            @@ [arg EXCEPT !.part_time_weight = w]
    /\ pc' = "spec45"
    /\ UNCHANGED <<script, df, out>>

(* table_5 runs specification 3 on a copy of base_sample, the sample made  *)
(* with include_temp_closed=False.                                         *)
Table5Specification3 ==
    /\ script = "utility" /\ pc = "sample" /\ ~arg.include_temp_closed
    /\ out' = MapRows(t5_specification_3, sample)
    /\ pc' = "sample3"
    /\ UNCHANGED <<script, df, sample, arg>>

Table2aCloseStores ==
    /\ script = "Table_2" /\ pc = "raw"
    /\ df' = MapRows(T2a_close_stores, df)
    /\ pc' = "closed"
    /\ UNCHANGED <<script, sample, arg, out>>

Table2aFte ==
    /\ script = "Table_2" /\ pc = "closed"
    /\ df' = MapRows(T2a_fte_columns, df)
    /\ pc' = "derived"
    /\ UNCHANGED <<script, sample, arg, out>>

Table2aMeanColumns ==
    /\ script = "Table_2" /\ pc = "derived"
    /\ df' = MapRows(T2a_mean_columns, df)
    /\ pc' = "columns"
    /\ UNCHANGED <<script, sample, arg, out>>

Waves == {"1", "2"}

TargetWages == {OldMinimum, NewMinimum, Rat(450, 100)}

Table2CalculateWagePercentages ==
    /\ script = "wage_pct" /\ pc = "raw"
    /\ \E wave \in Waves :
          /\ arg' = [wave |-> wave]
          /\ out' = t2_calculate_wage_percentages(df, wave)
    /\ pc' = "t2_wage_pct"
    /\ UNCHANGED <<script, df, sample>>

UtilCalculateWagePercentages ==
    /\ script = "wage_pct" /\ pc = "raw"
    /\ \E target_wage \in TargetWages, wave \in Waves :
          /\ arg' = [target_wage |-> target_wage, wave |-> wave]
          /\ out' = [wage_pct |-> util_calculate_wage_percentages(df, target_wage, wave)]
    /\ pc' = "util_wage_pct"
    /\ UNCHANGED <<script, df, sample>>

Table2CalculateDerivedVariables ==
    /\ script = "table_2" /\ pc = "raw"
    /\ df' = MapRows(t2_calculate_derived_variables, df)
    /\ pc' = "derived"
    /\ UNCHANGED <<script, sample, arg, out>>

Table4CreateVariables ==
    /\ script = "table_4" /\ pc = "raw"
    /\ df' = MapRows(t4_create_variables, df)
    /\ pc' = "derived"
    /\ UNCHANGED <<script, sample, arg, out>>

Table5bCreateDerivedVariables ==
    /\ script = "table_5b" /\ pc = "raw"
    /\ df' = MapRows(t5b_create_derived_variables, df)
    /\ pc' = "derived"
    /\ UNCHANGED <<script, sample, arg, out>>

Table6WageGap ==
    /\ script = "table_6" /\ pc = "raw"
    /\ df' = MapRows(t6_gap, df)
    /\ pc' = "derived"
    /\ UNCHANGED <<script, sample, arg, out>>

Table7WageGap ==
    /\ script = "table_7" /\ pc = "raw"
    /\ df' = MapRows(t7_gap, t7_completed(df))
    /\ pc' = "derived"
    /\ UNCHANGED <<script, sample, arg, out>>

(* table_3/replicate.py calculate_fte_employment: the weight is 0.5. *)
t3_calculate_fte_employment(row) ==
    Pipe(SetCols(row, [FTE_W1 |-> Add(Add(row.EMPFT, row.NMGRS), Mul(Half, row.EMPPT))]), LAMBDA r1 :
         SetCols(r1,  [FTE_W2 |-> Add(Add(r1.EMPFT2, r1.NMGRS2), Mul(Half, r1.EMPPT2))]))

Table3CalculateFteEmployment ==
    /\ script = "table_3" /\ pc = "raw"
    /\ df' = MapRows(t3_calculate_fte_employment, df)
    /\ pc' = "fte"
    /\ UNCHANGED <<script, sample, arg, out>>

t3_identify_store_status(row) ==
    SetCols(row, [permanently_closed |-> row.STATUS2 = PermanentlyClosed,
                  temporarily_closed |-> row.STATUS2 \in TempClosedCodes])

(* wage_group is "nan" where the code leaves np.nan. *)
t3_create_wage_groups(row) ==
    Pipe(SetCols(row, [wage_group |-> "nan"]), LAMBDA r1 :
    Pipe(IF r1.STATE = 1 /\ Eq(r1.WAGE_ST, LowWage)
         THEN SetCols(r1, [wage_group |-> "low"]) ELSE r1, LAMBDA r2 :
    Pipe(IF r2.STATE = 1 /\ Ge(r2.WAGE_ST, MidWageFrom) /\ Le(r2.WAGE_ST, MidWageTo)
         THEN SetCols(r2, [wage_group |-> "mid"]) ELSE r2, LAMBDA r3 :
         IF r3.STATE = 1 /\ Ge(r3.WAGE_ST, HighWageFrom)
         THEN SetCols(r3, [wage_group |-> "high"]) ELSE r3)))

Table3IdentifyStoreStatus ==
    /\ script = "table_3" /\ pc = "fte"
    /\ df' = MapRows(t3_identify_store_status, df)
    /\ pc' = "status"
    /\ UNCHANGED <<script, sample, arg, out>>

Table3CreateWageGroups ==
    /\ script = "table_3" /\ pc = "status"
    /\ df' = MapRows(t3_create_wage_groups, df)
    /\ pc' = "groups"
    /\ UNCHANGED <<script, sample, arg, out>>

Next ==
    \/ CalculateFteEmployment
    \/ CalculateChainDummies
    \/ CalculateStateIndicators
    \/ CalculateWageGap
    \/ CalculateMealPrices
    \/ CalculateFullTimePercentage
    \/ CalculateProportionalChange
    \/ CreateBasicDerivedVariablesEnd
    \/ CreateAnalysisSample
    \/ Table5Specification3
    \/ Table2aCloseStores
    \/ Table2aFte
    \/ Table2CalculateDerivedVariables
    \/ Table4CreateVariables
    \/ Table5bCreateDerivedVariables
    \/ Table6WageGap
    \/ Table7WageGap
    \/ Table5ReweightFte
    \/ Table3CalculateFteEmployment
    \/ Table2aMeanColumns
    \/ Table2CalculateWagePercentages
    \/ UtilCalculateWagePercentages
    \/ CreateWageGroups
    \/ FilterByState
    \/ CreateBalancedSample
    \/ Table5PrepareSampleWithTempClosed
    \/ Table5Specification45
    \/ Table5bSpecification45
    \/ Table4CreateAnalysisSample
    \/ Table3IdentifyStoreStatus
    \/ Table3CreateWageGroups

Spec == Init /\ [][Next]_vars

-----------------------------------------------------------------------------
(* Descriptive statistics.  A standard error is carried as its square      *)
(* (field se2): the code's se is the non-negative square root of it, and   *)
(* NaN where it is NaN.                                                    *)

MaxRows == 2

MaxLen == 4

Column(frame, c) == [i \in DOMAIN frame |-> frame[i][c]]

RECURSIVE SumTo(_, _)
SumTo(s, k) == IF k = 0 THEN Zero ELSE Add(SumTo(s, k - 1), s[k])

RECURSIVE SumSqDevTo(_, _, _)
SumSqDevTo(s, m, k) ==
    IF k = 0 THEN Zero
    ELSE Add(SumSqDevTo(s, m, k - 1), Mul(Sub(s[k], m), Sub(s[k], m)))

(* np.mean / Series.mean *)
Mean(clean) == Div(SumTo(clean, Len(clean)), Num(Len(clean)))

(* (np.std(ddof=1) / sqrt(n)) squared: the sample variance over n *)
Se2(clean) ==
    Div(Div(SumSqDevTo(clean, Mean(clean), Len(clean)), Num(Len(clean) - 1)),
        Num(Len(clean)))

NoStats == [mean |-> NaN, se2 |-> NaN, n |-> 0]

util_mean_and_se_no_dropna(series) ==
    IF Len(series) = 0 THEN NoStats
    ELSE [mean |-> Mean(series), se2 |-> Se2(series), n |-> Len(series)]

util_calculate_mean_and_se(series) ==
    Pipe(SelectSeq(series, notna), LAMBDA clean_series :
         IF Len(clean_series) = 0 THEN NoStats
         ELSE [mean |-> Mean(clean_series), se2 |-> Se2(clean_series),
               n |-> Len(clean_series)])

t3_calculate_statistics_with_se(data) ==
    IF Len(data) = 0 \/ (\A i \in DOMAIN data : isna(data[i])) THEN NoStats
    ELSE Pipe(SelectSeq(data, notna), LAMBDA clean_data :
              IF Len(clean_data) = 0 THEN NoStats
              ELSE [mean |-> Mean(clean_data), se2 |-> Se2(clean_data),
                    n |-> Len(clean_data)])

util_create_basic_derived_variables(row) ==
    util_dwage_and_closed(
    util_calculate_proportional_change(
    util_calculate_full_time_percentage(
    util_calculate_meal_prices(
    util_calculate_wage_gap(
    util_calculate_state_indicators(
    util_calculate_chain_dummies(
    util_calculate_fte_employment(row, Half))))))))

-----------------------------------------------------------------------------
(* table_10/replicate.py                                                   *)

PriceVars == {"PSODA", "PFRY", "PENTREE", "PTOTAL"}

(* f"{price_var}2" *)
Wave2Name(price_var) ==
    CASE price_var = "PSODA"   -> "PSODA2"
      [] price_var = "PFRY"    -> "PFRY2"
      [] price_var = "PENTREE" -> "PENTREE2"
      [] price_var = "PTOTAL"  -> "PTOTAL2"

t10_balanced_mask(row) ==
    /\ \A v \in PriceVars : notna(row[v])
    /\ \A v \in PriceVars : notna(row[Wave2Name(v)])

t10_calculate_price_changes(row) ==
    Pipe(SetCols(row, [PTOTAL  |-> MealSum(row.PSODA, row.PFRY, row.PENTREE)]), LAMBDA r1 :
    Pipe(SetCols(r1,  [PTOTAL2 |-> MealSum(r1.PSODA2, r1.PFRY2, r1.PENTREE2)]), LAMBDA r2 :
         SetCols(r2,  [balanced_sample |-> t10_balanced_mask(r2)])))

(* df[group_filter] for the filters of generate_price_table: nj == group *)
t10_group(frame, group) == SelectSeq(frame, LAMBDA r : r.nj = group)

t10_calculate_price_stats(frame, group, price_var, wave) ==
    util_calculate_mean_and_se(
        Column(t10_group(frame, group),
               IF wave = 1 THEN price_var ELSE Wave2Name(price_var)))

Min(a, b) == IF a < b THEN a ELSE b

t10_change_all(stats_w1, stats_w2) ==
    IF isna(stats_w1.mean) \/ isna(stats_w2.mean) THEN NoStats
    ELSE [mean |-> Sub(stats_w2.mean, stats_w1.mean),
          se2  |-> Add(stats_w1.se2, stats_w2.se2),
          n    |-> Min(stats_w1.n, stats_w2.n)]

IsBalanced(row) == row.balanced_sample

t10_change_balanced(balanced_data, price_var) ==
    IF Len(balanced_data) = 0 THEN NoStats
    ELSE util_calculate_mean_and_se(
            [i \in DOMAIN balanced_data |->
                Sub(balanced_data[i][Wave2Name(price_var)], balanced_data[i][price_var])])

t10_calculate_price_changes_stats(frame, group, price_var, method) ==
    IF method = "all"
    THEN t10_change_all(t10_calculate_price_stats(frame, group, price_var, 1),
                        t10_calculate_price_stats(frame, group, price_var, 2))
    ELSE t10_change_balanced(SelectSeq(t10_group(frame, group), IsBalanced), price_var)

NoDifference == [mean |-> NaN, se2 |-> NaN]

t10_calculate_difference(stat1, stat2) ==
    IF isna(stat1.mean) \/ isna(stat2.mean) THEN NoDifference
    ELSE [mean |-> Sub(stat1.mean, stat2.mean), se2 |-> Add(stat1.se2, stat2.se2)]

(* One block of var_results: the two groups and their difference NJ - PA. *)
t10_block(pa, nj) == [PA |-> pa, NJ |-> nj, diff |-> t10_calculate_difference(nj, pa)]

t10_var_results(frame, price_var) ==
    [wave1 |-> t10_block(t10_calculate_price_stats(frame, 0, price_var, 1),
                         t10_calculate_price_stats(frame, 1, price_var, 1)),
     wave2 |-> t10_block(t10_calculate_price_stats(frame, 0, price_var, 2),
                         t10_calculate_price_stats(frame, 1, price_var, 2)),
     change_all |->
        t10_block(t10_calculate_price_changes_stats(frame, 0, price_var, "all"),
                  t10_calculate_price_changes_stats(frame, 1, price_var, "all")),
     change_balanced |->
        t10_block(t10_calculate_price_changes_stats(frame, 0, price_var, "balanced"),
                  t10_calculate_price_changes_stats(frame, 1, price_var, "balanced"))]

t10_generate_price_table(frame) ==
    [price_var \in PriceVars |-> t10_var_results(frame, price_var)]

-----------------------------------------------------------------------------
(* table_3/replicate.py                                                    *)

(* A row 3 whose copy keeps the wave-2 count of a temporarily closed store *)
t3_row3_work_keeps_temp_closed(row) ==
    IF row.permanently_closed THEN SetCols(row, [FTE_W2 |-> Zero]) ELSE row

(* process_row_3: df_work, the copy whose FTE_W2 follows the closures. *)
t3_row3_work(row) ==
    Pipe(IF row.permanently_closed THEN SetCols(row, [FTE_W2 |-> Zero]) ELSE row, LAMBDA r1 :
         IF r1.temporarily_closed THEN SetCols(r1, [FTE_W2 |-> NaN]) ELSE r1)

t3_paired_mask(row) == notna(row.FTE_W1) /\ notna(row.FTE_W2)

t3_fte_change(row) == SetCols(row, [FTE_change |-> Sub(row.FTE_W2, row.FTE_W1)])

t3_row3_paired(frame) ==
    MapRows(t3_fte_change, SelectSeq(MapRows(t3_row3_work, frame), t3_paired_mask))

(* The (mean, se) pair the process_row functions keep of a group's stats. *)
t3_mean_se(stats) == [mean |-> stats.mean, se2 |-> stats.se2]

t3_state_change(df_paired, state) ==
    t3_mean_se(t3_calculate_statistics_with_se(
        Column(SelectSeq(df_paired, LAMBDA r : r.STATE = state), "FTE_change")))

t3_wage_group_change(df_paired, group) ==
    t3_mean_se(t3_calculate_statistics_with_se(
        Column(SelectSeq(df_paired, LAMBDA r : r.STATE = 1 /\ r.wage_group = group),
               "FTE_change")))

t3_row3_groups(df_paired) ==
    [nj      |-> t3_state_change(df_paired, 1),
     pa      |-> t3_state_change(df_paired, 0),
     nj_low  |-> t3_wage_group_change(df_paired, "low"),
     nj_mid  |-> t3_wage_group_change(df_paired, "mid"),
     nj_high |-> t3_wage_group_change(df_paired, "high")]

t3_process_row_3(frame) == t3_row3_groups(t3_row3_paired(frame))

(* The five (mean, se) cells of a row, taken of column col of the frame. *)
t3_group_stats(frame, col) ==
    [nj      |-> t3_mean_se(t3_calculate_statistics_with_se(
                     Column(SelectSeq(frame, LAMBDA r : r.STATE = 1), col))),
     pa      |-> t3_mean_se(t3_calculate_statistics_with_se(
                     Column(SelectSeq(frame, LAMBDA r : r.STATE = 0), col))),
     nj_low  |-> t3_mean_se(t3_calculate_statistics_with_se(
                     Column(SelectSeq(frame, LAMBDA r : r.STATE = 1 /\ r.wage_group = "low"), col))),
     nj_mid  |-> t3_mean_se(t3_calculate_statistics_with_se(
                     Column(SelectSeq(frame, LAMBDA r : r.STATE = 1 /\ r.wage_group = "mid"), col))),
     nj_high |-> t3_mean_se(t3_calculate_statistics_with_se(
                     Column(SelectSeq(frame, LAMBDA r : r.STATE = 1 /\ r.wage_group = "high"), col)))]

(* process_rows_1_2: row 1 of df, row 2 of the copy df_w2. *)
t3_process_rows_1_2(frame) ==
    [row1 |-> t3_group_stats(frame, "FTE_W1"),
     row2 |-> t3_group_stats(MapRows(t3_row3_work, frame), "FTE_W2")]

t3_row4_mask(row) ==
    /\ (notna(row.FTE_W1) /\ notna(row.FTE_W2))
          \/ (row.permanently_closed /\ notna(row.FTE_W1))
    /\ ~row.temporarily_closed

t3_row4_write(row) ==
    Pipe(IF row.permanently_closed THEN SetCols(row, [FTE_W2 |-> Zero]) ELSE row, LAMBDA r1 :
         t3_fte_change(r1))

t3_row4_balanced(frame) == MapRows(t3_row4_write, SelectSeq(frame, t3_row4_mask))

t3_process_row_4(frame) == t3_group_stats(t3_row4_balanced(frame), "FTE_change")

t3_row5_mask(row) ==
    \/ notna(row.FTE_W1) /\ notna(row.FTE_W2)
    \/ row.permanently_closed /\ notna(row.FTE_W1)
    \/ row.temporarily_closed /\ notna(row.FTE_W1)

(* A row 5 that leaves the wave-2 count of a temporarily closed store *)
t3_row5_write_keeps_temp_closed(row) ==
    Pipe(IF row.permanently_closed THEN SetCols(row, [FTE_W2 |-> Zero]) ELSE row, LAMBDA r1 :
         t3_fte_change(r1))

t3_row5_write(row) ==
    Pipe(IF row.permanently_closed THEN SetCols(row, [FTE_W2 |-> Zero]) ELSE row, LAMBDA r1 :
    Pipe(IF r1.temporarily_closed THEN SetCols(r1, [FTE_W2 |-> Zero]) ELSE r1, LAMBDA r2 :
         t3_fte_change(r2)))

t3_row5_balanced(frame) == MapRows(t3_row5_write, SelectSeq(frame, t3_row5_mask))

t3_process_row_5(frame) == t3_group_stats(t3_row5_balanced(frame), "FTE_change")

(* The stores a row of the table uses, by their index label in df, each    *)
(* with the FTE_W2 and FTE_change the row gave it: df.loc[mask] keeps the  *)
(* labels of the rows it selects.                                          *)
t3_row3_stores(frame) ==
    [i \in {j \in DOMAIN frame : t3_paired_mask(t3_row3_work(frame[j]))} |->
        t3_fte_change(t3_row3_work(frame[i]))]

t3_row4_stores(frame) ==
    [i \in {j \in DOMAIN frame : t3_row4_mask(frame[j])} |-> t3_row4_write(frame[i])]

t3_row5_stores(frame) ==
    [i \in {j \in DOMAIN frame : t3_row5_mask(frame[j])} |-> t3_row5_write(frame[i])]

(* The caller's frame with the writes a process_row function makes to the  *)
(* rows it selected.                                                       *)
t3_written(frame, mask(_), write(_)) ==
    MapRows(LAMBDA r : IF mask(r) THEN write(r) ELSE r, frame)

t3_difference_pooled(a, b) ==
    IF ~(isna(a.mean) \/ isna(b.mean))
    THEN [mean |-> Sub(a.mean, b.mean), se2 |-> Div(Add(a.se2, b.se2), Two)]
    ELSE NoDifference

(* One of the three differences of calculate_differences. *)
t3_difference(a, b) ==
    IF ~(isna(a.mean) \/ isna(b.mean))
    THEN [mean |-> Sub(a.mean, b.mean), se2 |-> Add(a.se2, b.se2)]
    ELSE NoDifference

t3_calculate_differences(row_data) ==
    [nj_pa    |-> t3_difference(row_data.nj, row_data.pa),
     low_high |-> t3_difference(row_data.nj_low, row_data.nj_high),
     mid_high |-> t3_difference(row_data.nj_mid, row_data.nj_high)]

-----------------------------------------------------------------------------
(* Two-group tests.  A test statistic diff / sqrt(v) is carried as its     *)
(* signed square sign(diff) * diff^2 / v: 0 where the statistic is 0, NaN  *)
(* where it is NaN, an infinity where it is one.  A percentage standard    *)
(* error se * 100 is carried as its square.  A call that raises leaves     *)
(* Raised(...) as its result.                                              *)

MaxGroup == 2

Raised(error) == [raised |-> error]

One == Num(1)

TStat(diff, v) == Mul(Num(Sign(diff.n)), Div(Mul(diff, diff), v))

(* Series.sum(): missing values are skipped, the empty sum is 0. *)
RECURSIVE SumSkipNaTo(_, _)
SumSkipNaTo(series, k) ==
    IF k = 0 THEN Zero
    ELSE Add(SumSkipNaTo(series, k - 1), IF isna(series[k]) THEN Zero ELSE series[k])

(* p * (1 - p) / n *)
ProportionVar(p, n) == Div(Mul(p, Sub(One, p)), Num(n))

(* (n1 * p1 + n2 * p2) / (n1 + n2) *)
PooledProportion(p1, n1, p2, n2) ==
    Div(Add(Mul(Num(n1), p1), Mul(Num(n2), p2)), Num(n1 + n2))

(* pooled_p * (1 - pooled_p) * (1/n1 + 1/n2), for n1, n2 > 0 *)
PooledVar(pooled_p, n1, n2) ==
    Mul(Mul(pooled_p, Sub(One, pooled_p)), Add(Rat(1, n1), Rat(1, n2)))

TenThousand == Num(10000)

ProportionStats(p1, n1, p2, n2, t_stat) ==
    [nj_pct |-> Mul(p1, Hundred), nj_se2 |-> Mul(ProportionVar(p1, n1), TenThousand),
     pa_pct |-> Mul(p2, Hundred), pa_se2 |-> Mul(ProportionVar(p2, n2), TenThousand),
     t_stat |-> t_stat]

(* 1/n1 and 1/n2 divide Python ints: an empty group raises. *)
util_calculate_proportion_stats(nj_data, pa_data) ==
    IF Len(nj_data) = 0 \/ Len(pa_data) = 0 THEN Raised("ZeroDivisionError")
    ELSE Pipe(Div(SumSkipNaTo(nj_data, Len(nj_data)), Num(Len(nj_data))), LAMBDA p1 :
         Pipe(Div(SumSkipNaTo(pa_data, Len(pa_data)), Num(Len(pa_data))), LAMBDA p2 :
         Pipe(PooledVar(PooledProportion(p1, Len(nj_data), p2, Len(pa_data)),
                        Len(nj_data), Len(pa_data)), LAMBDA pooled_v :
              ProportionStats(p1, Len(nj_data), p2, Len(pa_data),
                  IF Gt(pooled_v, Zero) THEN TStat(Sub(p1, p2), pooled_v) ELSE Zero))))

t2_calculate_proportion_stats(nj_data, pa_data) ==
    IF Len(nj_data) = 0 \/ Len(pa_data) = 0 THEN Raised("ZeroDivisionError")
    ELSE Pipe(Div(SumSkipNaTo(nj_data, Len(nj_data)), Num(Len(nj_data))), LAMBDA p1 :
         Pipe(Div(SumSkipNaTo(pa_data, Len(pa_data)), Num(Len(pa_data))), LAMBDA p2 :
         Pipe(PooledVar(PooledProportion(p1, Len(nj_data), p2, Len(pa_data)),
                        Len(nj_data), Len(pa_data)), LAMBDA pooled_v :
              ProportionStats(p1, Len(nj_data), p2, Len(pa_data),
                  IF Gt(pooled_v, Zero) THEN TStat(Sub(p1, p2), pooled_v) ELSE Zero))))

(* Table_2/analysis.py proportion_test, on counts. *)
T2a_proportion_test(count1, n1, count2, n2) ==
    IF n1 = 0 \/ n2 = 0 THEN NaN
    ELSE Pipe(Rat(count1 + count2, n1 + n2), LAMBDA p_pooled :
         IF p_pooled = Zero \/ p_pooled = One THEN NaN
         ELSE Pipe(PooledVar(p_pooled, n1, n2), LAMBDA se2 :
              IF se2 = Zero THEN NaN
              ELSE TStat(Sub(Rat(count1, n1), Rat(count2, n2)), se2)))

(* (series == 1).sum() *)
CountOnes(series) == Cardinality({i \in DOMAIN series : series[i] = One})

(* Series.var(ddof=1) *)
Var(clean) == Div(SumSqDevTo(clean, Mean(clean), Len(clean)), Num(Len(clean) - 1))

(* ((n1 - 1) * var1 + (n2 - 1) * var2) / (n1 + n2 - 2) *)
PooledVariance(clean1, clean2) ==
    Div(Add(Mul(Num(Len(clean1) - 1), Var(clean1)), Mul(Num(Len(clean2) - 1), Var(clean2))),
        Num(Len(clean1) + Len(clean2) - 2))

(* pooled_var * (1/n1 + 1/n2): the square of pooled_se *)
PooledSe2(clean1, clean2) ==
    Mul(PooledVariance(clean1, clean2), Add(Rat(1, Len(clean1)), Rat(1, Len(clean2))))

NoStateStats ==
    [nj_mean |-> NaN, nj_se2 |-> NaN, pa_mean |-> NaN, pa_se2 |-> NaN, t_stat |-> NaN]

t2_stats_of_clean(nj_clean, pa_clean) ==
    IF Len(nj_clean) = 0 \/ Len(pa_clean) = 0 THEN NoStateStats
    ELSE [nj_mean |-> Mean(nj_clean), nj_se2 |-> Se2(nj_clean),
          pa_mean |-> Mean(pa_clean), pa_se2 |-> Se2(pa_clean),
          t_stat  |-> IF Gt(PooledSe2(nj_clean, pa_clean), Zero)
                      THEN TStat(Sub(Mean(nj_clean), Mean(pa_clean)),
                                 PooledSe2(nj_clean, pa_clean))
                      ELSE NaN]

t2_calculate_stats_by_state(nj_data, pa_data) ==
    t2_stats_of_clean(SelectSeq(nj_data, notna), SelectSeq(pa_data, notna))

(* stats.ttest_ind(clean1, clean2, equal_var=True): the t statistic; the   *)
(* p-value is missing where the statistic is and is not carried otherwise. *)
ttest_ind_equal_var(clean1, clean2) ==
    TStat(Sub(Mean(clean1), Mean(clean2)), PooledSe2(clean1, clean2))

util_ttest_of_clean(clean1, clean2) ==
    IF Len(clean1) < 2 \/ Len(clean2) < 2 THEN [t_stat |-> NaN, p_val |-> NaN]
    ELSE [t_stat |-> ttest_ind_equal_var(clean1, clean2), p_val |-> "p"]

util_calculate_two_sample_ttest(series1, series2) ==
    util_ttest_of_clean(SelectSeq(series1, notna), SelectSeq(series2, notna))

-----------------------------------------------------------------------------
(* Table cells.  A formatted number is the integer of its last printed     *)
(* digit: round(x * 10^places) with ties to the even neighbour, which is   *)
(* what the "f" presentation type prints for a value the float holds       *)
(* exactly.  A cell is the text of a literal or the pair of printed        *)
(* numbers of the pattern "value (se)".                                    *)
RoundHalfEven(n, d) ==
    LET q == n \div d
        r == n % d
    IN  IF 2 * r < d THEN q
        ELSE IF 2 * r > d THEN q + 1
        ELSE IF q % 2 = 0 THEN q ELSE q + 1

PowerOfTen(places) == 10 ^ places

Fixed(x, places) == RoundHalfEven(x.n * PowerOfTen(places), x.d)

Literal(text) == [text |-> text]

ValueAndSe(value, se, places) ==
    [text |-> "value (se)", value |-> Fixed(value, places),
     se |-> Fixed(se, places), places |-> places]

t3_format_number(mean, se) ==
    IF isna(mean) \/ isna(se) THEN Literal(".") ELSE ValueAndSe(mean, se, 2)

util_format_coefficient(coef, se, decimal_places) ==
    IF isna(coef) \/ isna(se) THEN Literal("")
    ELSE ValueAndSe(coef, se, decimal_places)

t6_format_number(value, se, decimal_places) ==
    IF isna(value) \/ isna(se) THEN Literal("")
    ELSE IF decimal_places = 0 THEN ValueAndSe(value, se, 0)
    ELSE IF decimal_places = 1 THEN ValueAndSe(value, se, 1)
    ELSE ValueAndSe(value, se, 2)

(* SpecStats: the statistics of table_3 and table_10 on small frames, and  *)
(* the two mean-and-standard-error functions on a series.                  *)

Rows(frame) == {frame[i] : i \in DOMAIN frame}

Frames(stores, maxrows) == UNION {[1..n -> stores] : n \in 0..maxrows}

(* Stores of every closure status with wave-1 and wave-2 counts present or *)
(* missing, and New Jersey stores of the middle wage group.                *)
Table3Stores ==
    { NamedStateChain(SetCols(NominalRow,
        [STATEr |-> st, STATUS2 |-> s, EMPFT |-> f1, EMPFT2 |-> f2])) :
        st \in {0, 1}, s \in {1, 2, 3, 5}, f1 \in {NaN, Num(1)}, f2 \in {NaN, Num(2)} }
    \cup
    { NamedStateChain(SetCols(NominalRow,
        [WAGE_ST |-> Rat(450, 100), EMPFT2 |-> f2])) : f2 \in {NaN, Num(2)} }

(* Stores observed in both waves, whose state, wage group and second-wave  *)
(* count vary.                                                             *)
Table3PanelStores ==
    { NamedStateChain(SetCols(NominalRow, [STATEr |-> 0, EMPFT2 |-> f2])) :
        f2 \in {Num(1), Num(3)} }
    \cup
    { NamedStateChain(SetCols(NominalRow, [WAGE_ST |-> w, EMPFT2 |-> f2])) :
        w \in {Rat(425, 100), Rat(500, 100)}, f2 \in {Num(1), Num(2)} }

Table10Stores ==
    { SetCols(NominalRow, [STATEr |-> st, PSODA |-> p1, PSODA2 |-> p2, PFRY |-> f]) :
        st \in {0, 1}, p1 \in {NaN, Num(1)}, p2 \in {NaN, Num(1), Num(2)},
        f \in {NaN, Num(1)} }

Table10PanelStores ==
    { SetCols(NominalRow, [STATEr |-> st, PSODA2 |-> p2]) :
        st \in {0, 1}, p2 \in {Num(1), Num(3)} }

SeriesValues == {NaN, Num(0), Num(1), Num(3)}

(* The values of a 0/1 column with missing entries. *)
GroupValues == {NaN, Zero, One}

(* Means and standard errors of a table cell: missing, zero, and values a  *)
(* float holds exactly, among them ties of the second decimal.             *)
CellValues == {NaN, Num(0), Rat(1, 8), Rat(3, 8), Rat(-5, 2)}

DecimalPlaces == {0, 1, 2, 3}

(* The joint significance test.  param_names is the index of the fitted    *)
(* model's parameters; positions count from 1 where the code counts from   *)
(* 0.  The p-value is a function of the restriction matrix handed to       *)
(* model.f_test, so the result carries the matrix.                         *)
MaxControls == 2

ParamNames == {<<"Intercept", "nj">>,
               <<"Intercept", "nj", "bk", "kfc">>,
               <<"Intercept", "bk", "nj", "CO_OWNED">>}

ControlNames == {"bk", "kfc", "CO_OWNED"}

ControlVars ==
    { s \in UNION {[1..n -> ControlNames] : n \in 0..MaxControls} :
        \A i, j \in DOMAIN s : i # j => s[i] # s[j] }

None == [missing |-> TRUE]

Contains(names, var) == \E i \in DOMAIN names : names[i] = var

IndexOf(names, var) ==
    CHOOSE j \in DOMAIN names :
        names[j] = var /\ \A i \in 1..(j - 1) : names[i] # var

TestVars(control_vars, param_names) ==
    SelectSeq(control_vars, LAMBDA var : Contains(param_names, var))

f_test(R) == [f_test |-> R]

util_f_test_row_by_position(param_names, control_vars) ==
    LET test_vars == TestVars(control_vars, param_names)
        k == Len(param_names)
    IN  IF test_vars = <<>> THEN None
        ELSE f_test([i \in 1..Len(test_vars) |->
                        [c \in 1..k |-> IF c = i THEN 1 ELSE 0]])

util_calculate_f_test_pvalue(param_names, control_vars) ==
    LET test_vars == TestVars(control_vars, param_names)
        k == Len(param_names)
    IN  IF test_vars = <<>> THEN None
        ELSE f_test([i \in 1..Len(test_vars) |->
                        [c \in 1..k |->
                            IF c = IndexOf(param_names, test_vars[i]) THEN 1 ELSE 0]])

t4_calculate_f_test_pvalue(param_names, control_vars) ==
    LET test_vars == TestVars(control_vars, param_names)
        k == Len(param_names)
        R == [i \in 1..Len(test_vars) |->
                [c \in 1..k |->
                    IF c = IndexOf(param_names, test_vars[i]) THEN 1 ELSE 0]]
    IN  IF test_vars = <<>> THEN None ELSE f_test(R)

UtilCalculateFTestPvalue ==
    /\ script = "f_test" /\ pc = "raw"
    /\ out' = util_calculate_f_test_pvalue(arg.param_names, arg.control_vars)
    /\ pc' = "util_f_test"
    /\ UNCHANGED <<script, df, sample, arg>>

Table4CalculateFTestPvalue ==
    /\ script = "f_test" /\ pc = "raw"
    /\ out' = t4_calculate_f_test_pvalue(arg.param_names, arg.control_vars)
    /\ pc' = "t4_f_test"
    /\ UNCHANGED <<script, df, sample, arg>>

(* The main functions of table_3 and table_2.  arg.existing is the set of  *)
(* paths at which os.path.exists finds the data file; the relative path    *)
(* and the path under os.getcwd() name the same file.  out is the state    *)
(* of the process: the path or frame it holds, whether the table was       *)
(* produced, and the exit code once it has ended.                          *)
t3_possible_paths ==
    <<"script_dir/../data/public.dat", "script_dir/data/public.dat",
      "cwd/data/public.dat", "data/public.dat">>

t2_data_file == "script_dir/../data/public.dat"

ExistingPaths ==
    { e \in SUBSET Rows(t3_possible_paths) :
        ("cwd/data/public.dat" \in e) <=> ("data/public.dat" \in e) }

Exited(code, table) == [exit_code |-> code, table |-> table]

FirstExisting(paths, existing) ==
    paths[CHOOSE i \in DOMAIN paths :
            paths[i] \in existing /\ \A j \in 1..(i - 1) : paths[j] \notin existing]

(* get_data_path returns the first existing path or raises                 *)
(* FileNotFoundError, which main catches and turns into sys.exit(1).       *)
Table3MainGetDataPath ==
    /\ script = "table_3_main" /\ pc = "raw"
    /\ IF arg.existing = {}
       THEN out' = Exited(1, FALSE) /\ pc' = "exited"
       ELSE /\ out' = [data_path |-> FirstExisting(t3_possible_paths, arg.existing)]
            /\ pc' = "located"
    /\ UNCHANGED <<script, df, sample, arg>>

(* read_data to print_verification_statistics; the interpreter ends with   *)
(* code 0 after main returns.                                              *)
Table3MainGenerateTable3 ==
    /\ script = "table_3_main" /\ pc = "located"
    /\ out' = Exited(0, TRUE)
    /\ pc' = "exited"
    /\ UNCHANGED <<script, df, sample, arg>>

(* read_data returns None when the file does not exist; main prints        *)
(* "Failed to read data file" and returns.                                 *)
Table2MainReadData ==
    /\ script = "table_2_main" /\ pc = "raw"
    /\ IF t2_data_file \notin arg.existing
       THEN out' = Exited(0, FALSE) /\ pc' = "exited"
       ELSE out' = [data_path |-> t2_data_file] /\ pc' = "located"
    /\ UNCHANGED <<script, df, sample, arg>>

Table2MainPrintTable2 ==
    /\ script = "table_2_main" /\ pc = "located"
    /\ out' = Exited(0, TRUE)
    /\ pc' = "exited"
    /\ UNCHANGED <<script, df, sample, arg>>

InitStats ==
    /\ \/ /\ script = "table_3"
          /\ df \in Frames(Table3Stores, MaxRows) \cup Frames(Table3PanelStores, MaxLen)
          /\ arg = <<>>
       \/ /\ script = "table_10"
          /\ df \in Frames(Table10Stores, MaxRows) \cup Frames(Table10PanelStores, MaxLen)
          /\ arg = <<>>
       \/ /\ script = "Table_2"
          /\ \E r \in Table10Stores : df = <<NamedStateChain(r)>>
          /\ arg = <<>>
       \/ /\ script = "table_5"
          /\ \E r \in SampleStores : df = <<r>>
          /\ arg = NoArg
       \/ /\ script = "series"
          /\ df = <<>>
          /\ arg \in Frames(SeriesValues, MaxLen)
       \/ /\ script = "f_test"
          /\ df = <<>>
          /\ arg \in [param_names : ParamNames, control_vars : ControlVars]
       \/ /\ script \in {"table_3_main", "table_2_main"}
          /\ df = <<>>
          /\ arg \in [existing : ExistingPaths]
       \/ /\ script = "cells"
          /\ df = <<>>
          /\ arg \in [mean : CellValues, se : CellValues,
                      decimal_places : DecimalPlaces]
       \/ /\ script = "groups"
          /\ df = <<>>
          /\ arg \in [nj_data : Frames(GroupValues, MaxGroup),
                      pa_data : Frames(GroupValues, MaxGroup)]
    /\ pc = "raw"
    /\ sample = <<>>
    /\ out = <<>>

Table3ProcessRows12 ==
    /\ script = "table_3" /\ pc = "groups"
    /\ \E call \in {CallOnCopy(df, MapRows(t3_row3_work, df), t3_process_rows_1_2(df))} :
          /\ df' = call.df
          /\ out' = call.result
    /\ pc' = "rows12"
    /\ UNCHANGED <<script, sample, arg>>

Table3ProcessRow3 ==
    /\ script = "table_3" /\ pc = "groups"
    /\ \E call \in {CallOnCopy(df, MapRows(t3_row3_work, df), t3_process_row_3(df))} :
          /\ df' = call.df
          /\ out' = [row3 |-> call.result]
    /\ pc' = "row3"
    /\ UNCHANGED <<script, sample, arg>>

Table3ProcessRow4 ==
    /\ script = "table_3" /\ pc = "groups"
    /\ \E call \in {CallOnCopy(df, t3_written(df, t3_row4_mask, t3_row4_write),
                                 t3_process_row_4(df))} :
          /\ df' = call.df
          /\ out' = [row4 |-> call.result]
    /\ pc' = "row4"
    /\ UNCHANGED <<script, sample, arg>>

Table3ProcessRow5 ==
    /\ script = "table_3" /\ pc = "groups"
    /\ \E call \in {CallOnCopy(df, t3_written(df, t3_row5_mask, t3_row5_write),
                                 t3_process_row_5(df))} :
          /\ df' = call.df
          /\ out' = [row5 |-> call.result]
    /\ pc' = "row5"
    /\ UNCHANGED <<script, sample, arg>>

Table5CreateBasicDerivedVariables ==
    /\ script = "table_5" /\ pc = "raw"
    /\ df' = MapRows(util_create_basic_derived_variables, df)
    /\ pc' = "derived"
    /\ UNCHANGED <<script, sample, arg, out>>

Table3CalculateDifferences ==
    /\ script = "table_3" /\ pc = "row3"
    /\ out' = [row3 |-> out.row3, row3_diffs |-> t3_calculate_differences(out.row3)]
    /\ pc' = "diffs"
    /\ UNCHANGED <<script, df, sample, arg>>

Table10CreateBasicDerivedVariables ==
    /\ script = "table_10" /\ pc = "raw"
    /\ df' = MapRows(util_create_basic_derived_variables, df)
    /\ pc' = "derived"
    /\ UNCHANGED <<script, sample, arg, out>>

Table10CalculatePriceChanges ==
    /\ script = "table_10" /\ pc = "derived"
    /\ df' = MapRows(t10_calculate_price_changes, df)
    /\ pc' = "changes"
    /\ UNCHANGED <<script, sample, arg, out>>

Table10GeneratePriceTable ==
    /\ script = "table_10" /\ pc = "changes"
    /\ out' = t10_generate_price_table(df)
    /\ pc' = "table"
    /\ UNCHANGED <<script, df, sample, arg>>

UtilCalculateMeanAndSe ==
    /\ script = "series" /\ pc = "raw"
    /\ out' = util_calculate_mean_and_se(arg)
    /\ pc' = "util_stats"
    /\ UNCHANGED <<script, df, sample, arg>>

Table3CalculateStatisticsWithSe ==
    /\ script = "series" /\ pc = "raw"
    /\ out' = t3_calculate_statistics_with_se(arg)
    /\ pc' = "t3_stats"
    /\ UNCHANGED <<script, df, sample, arg>>

UtilCalculateProportionStats ==
    /\ script = "groups" /\ pc = "raw"
    /\ out' = util_calculate_proportion_stats(arg.nj_data, arg.pa_data)
    /\ pc' = "util_proportion"
    /\ UNCHANGED <<script, df, sample, arg>>

Table2CalculateProportionStats ==
    /\ script = "groups" /\ pc = "raw"
    /\ out' = t2_calculate_proportion_stats(arg.nj_data, arg.pa_data)
    /\ pc' = "t2_proportion"
    /\ UNCHANGED <<script, df, sample, arg>>

(* Table_2 main: counts of the rows equal to the code, totals of all rows. *)
Table2aProportionTest ==
    /\ script = "groups" /\ pc = "raw"
    /\ out' = [t_stat |-> T2a_proportion_test(CountOnes(arg.nj_data), Len(arg.nj_data),
                                              CountOnes(arg.pa_data), Len(arg.pa_data))]
    /\ pc' = "T2a_proportion"
    /\ UNCHANGED <<script, df, sample, arg>>

Table2CalculateStatsByState ==
    /\ script = "groups" /\ pc = "raw"
    /\ out' = t2_calculate_stats_by_state(arg.nj_data, arg.pa_data)
    /\ pc' = "t2_stats"
    /\ UNCHANGED <<script, df, sample, arg>>

UtilCalculateTwoSampleTtest ==
    /\ script = "groups" /\ pc = "raw"
    /\ out' = util_calculate_two_sample_ttest(arg.nj_data, arg.pa_data)
    /\ pc' = "util_ttest"
    /\ UNCHANGED <<script, df, sample, arg>>

Table3FormatNumber ==
    /\ script = "cells" /\ pc = "raw"
    /\ out' = t3_format_number(arg.mean, arg.se)
    /\ pc' = "t3_cell"
    /\ UNCHANGED <<script, df, sample, arg>>

UtilFormatCoefficient ==
    /\ script = "cells" /\ pc = "raw"
    /\ out' = util_format_coefficient(arg.mean, arg.se, arg.decimal_places)
    /\ pc' = "util_cell"
    /\ UNCHANGED <<script, df, sample, arg>>

Table6FormatNumber ==
    /\ script = "cells" /\ pc = "raw"
    /\ out' = t6_format_number(arg.mean, arg.se, arg.decimal_places)
    /\ pc' = "t6_cell"
    /\ UNCHANGED <<script, df, sample, arg>>

(* generate_table_3: rows 3, 4 and 5 of the same df, none of which writes  *)
(* to it.  sample is the stores of each row, out the cells of each row.    *)
Table3GenerateTable3 ==
    /\ script = "table_3" /\ pc = "groups"
    /\ sample' = [row3 |-> t3_row3_stores(df), row4 |-> t3_row4_stores(df),
                  row5 |-> t3_row5_stores(df)]
    /\ out' = [row3 |-> t3_process_row_3(df), row4 |-> t3_process_row_4(df),
               row5 |-> t3_process_row_5(df)]
    /\ pc' = "table3"
    /\ UNCHANGED <<script, df, arg>>

NextStats ==
    \/ Table3CalculateFteEmployment
    \/ Table3IdentifyStoreStatus
    \/ Table3CreateWageGroups
    \/ Table3ProcessRow3
    \/ Table3CalculateDifferences
    \/ Table10CreateBasicDerivedVariables
    \/ Table10CalculatePriceChanges
    \/ Table10GeneratePriceTable
    \/ UtilCalculateMeanAndSe
    \/ Table3CalculateStatisticsWithSe
    \/ UtilCalculateProportionStats
    \/ Table2CalculateProportionStats
    \/ Table2aProportionTest
    \/ Table2CalculateStatsByState
    \/ UtilCalculateTwoSampleTtest
    \/ Table2aCloseStores
    \/ Table2aFte
    \/ Table2aMeanColumns
    \/ Table3ProcessRows12
    \/ Table3ProcessRow4
    \/ Table3ProcessRow5
    \/ Table5CreateBasicDerivedVariables
    \/ CreateAnalysisSample
    \/ CreateBalancedSample
    \/ Table5PrepareSampleWithTempClosed
    \/ Table3FormatNumber
    \/ UtilFormatCoefficient
    \/ Table6FormatNumber
    \/ UtilCalculateFTestPvalue
    \/ Table4CalculateFTestPvalue
    \/ Table3MainGetDataPath
    \/ Table3MainGenerateTable3
    \/ Table2MainReadData
    \/ Table2MainPrintTable2
    \/ Table3GenerateTable3

SpecStats == InitStats /\ [][NextStats]_vars

-----------------------------------------------------------------------------
(* Properties of the derived variables, over the frames of Spec.           *)


HasCol(row, c) == c \in DOMAIN row

AnyMissing(a, b, c) == isna(a) \/ isna(b) \/ isna(c)

(* C1 as stated: in every frame that carries the FTE columns, the          *)
(* full-time-equivalent employment of each wave is missing if and only if  *)
(* at least one of that wave's three inputs is missing.                    *)
C1_MissingIffAnyInputMissing ==
    /\ script = "utility" =>
          \A r \in Rows(df) : HasCol(r, "EMPTOT2") =>
              /\ isna(r.EMPTOT)  <=> AnyMissing(r.EMPFT, r.EMPPT, r.NMGRS)
              /\ isna(r.EMPTOT2) <=> AnyMissing(r.EMPFT2, r.EMPPT2, r.NMGRS2)
    /\ script = "Table_2" =>
          \A r \in Rows(df) : HasCol(r, "FTE2") =>
              /\ isna(r.FTE1) <=> AnyMissing(r.EMPFT, r.EMPPT, r.NMGRS)
              /\ isna(r.FTE2) <=> AnyMissing(r.EMPFT2, r.EMPPT2, r.NMGRS2)

(* C1 amended: the FTE of wave 1, and the FTE of wave 2 of every store     *)
(* that is not permanently closed, is missing if and only if at least one  *)
(* of the three inputs is missing; when none is missing it is their        *)
(* weighted sum.  Table_2's scalar function satisfies this on every        *)
(* argument triple it is given.                                            *)
C1_MissingIffAnyInputMissingUnlessClosed ==
    /\ script = "utility" =>
          \A r \in Rows(df) : HasCol(r, "EMPTOT2") =>
              /\ isna(r.EMPTOT) <=> AnyMissing(r.EMPFT, r.EMPPT, r.NMGRS)
              /\ r.STATUS2 # PermanentlyClosed =>
                    (isna(r.EMPTOT2) <=> AnyMissing(r.EMPFT2, r.EMPPT2, r.NMGRS2))
    /\ script = "Table_2" =>
          \A r \in Rows(df) : HasCol(r, "FTE2") =>
              /\ isna(r.FTE1) <=> AnyMissing(r.EMPFT, r.EMPPT, r.NMGRS)
              /\ isna(r.FTE2) <=> AnyMissing(r.EMPFT2, r.EMPPT2, r.NMGRS2)

C1_Witness ==
    /\ script = "utility"
    /\ \E r \in Rows(df) :
          /\ HasCol(r, "EMPTOT2")
          /\ r.STATUS2 # PermanentlyClosed
          /\ notna(r.EMPFT2) /\ isna(r.EMPPT2) /\ notna(r.NMGRS2)
          /\ isna(r.EMPTOT2)
          /\ notna(r.EMPTOT)

C3_TempClosedPolicy ==
    (script = "utility" /\ pc \in {"sample", "sample3"}) =>
        /\ ~arg.include_temp_closed =>
              \A s \in Rows(sample) : s.STATUS2 \notin TempClosedCodes
        /\ arg.include_temp_closed =>
              /\ \A s \in Rows(sample) :
                    s.STATUS2 \in TempClosedCodes => s.EMPTOT2 = Zero
              /\ \A r \in Rows(df) :
                    (r.STATUS2 \in TempClosedCodes /\ notna(r.EMPTOT)) =>
                        \E s \in Rows(sample) :
                            s.STATUS2 = r.STATUS2 /\ s.EMPTOT2 = Zero

(* The rows of table_5 specification 3, once it has run. *)
Specification3Rows ==
    IF script = "utility" /\ pc = "sample3" THEN Rows(out) ELSE {}

(* C4: whenever the wave-2 FTE a proportional change is computed from is   *)
(* 0, the proportional change is exactly -1, also when the wave-1 FTE is 0 *)
(* (utility.calculate_proportional_change, table_5 specification 3 and     *)
(* replicate_table5).                                                      *)
C4_ClosureFloor ==
    /\ script \in {"utility", "table_5b"} =>
          \A r \in Rows(df) :
              (HasCol(r, "PCHEMPC") /\ Eq(r.EMPTOT2, Zero)) => r.PCHEMPC = MinusOne
    /\ \A r \in Specification3Rows :
          Eq(r.EMPTOT2_NO_MGR, Zero) => r.PCHEMPC_NO_MGR = MinusOne

C4_Witness ==
    /\ script = "utility"
    /\ \E r \in Rows(df) :
          /\ HasCol(r, "PCHEMPC")
          /\ r.STATUS2 # PermanentlyClosed
          /\ Eq(r.EMPTOT, Zero) /\ Eq(r.EMPTOT2, Zero)
          /\ r.PCHEMPC = MinusOne
    /\ \E r \in Specification3Rows :
          /\ Eq(r.EMPTOT_NO_MGR, Zero) /\ Eq(r.EMPTOT2_NO_MGR, Zero)
          /\ r.PCHEMPC_NO_MGR = MinusOne

(* C5 as stated: for every Pennsylvania store (state code 0) the wage gap  *)
(* is exactly 0 for any starting wage, a missing, zero or negative one     *)
(* included (utility.calculate_wage_gap and table_7's create_variables).   *)
C5_PennsylvaniaGapIsZero ==
    /\ script = "utility" =>
          \A r \in Rows(df) : (HasCol(r, "gap") /\ r.STATEr = 0) => r.gap = Zero
    /\ script = "table_7" =>
          \A r \in Rows(df) : (HasCol(r, "GAP") /\ r.STATE = 0) => r.GAP = Zero

(* The wage gap the claims name for a New Jersey store with a positive     *)
(* starting wage, stated through the product gap * w = 5.05 - w.           *)
GapAsStated(gap, w) ==
    /\ Ge(w, NewMinimum) => gap = Zero
    /\ Lt(w, NewMinimum) => (IsFinite(gap) /\ Mul(gap, w) = Sub(NewMinimum, w))
    /\ Ge(gap, Zero)
    /\ Gt(gap, Zero) <=> Lt(w, NewMinimum)

(* C6: for every New Jersey store with a positive starting wage w the wage *)
(* gap is 0 when w >= 5.05 and (5.05 - w) / w when 0 < w < 5.05; so it is  *)
(* never negative, and positive exactly when w < 5.05 (utility, table_4,   *)
(* table_6).                                                               *)
C6_NewJerseyGap ==
    script \in {"utility", "table_4", "table_6"} =>
        \A r \in Rows(df) :
            (HasCol(r, "gap") /\ r.STATEr = 1 /\ Gt(r.WAGE_ST, Zero)) =>
                GapAsStated(r.gap, r.WAGE_ST)

C6_Witness ==
    /\ script = "utility"
    /\ \E r \in Rows(df) :
          /\ HasCol(r, "gap") /\ r.STATEr = 1
          /\ r.WAGE_ST = Rat(425, 100)
          /\ r.gap = Rat(80, 425)

(* C7 as stated: for every New Jersey store whose starting wage is <= 0    *)
(* the wage gap is missing (utility.calculate_wage_gap and                 *)
(* replicate_table5's create_derived_variables).                           *)
C7_NewJerseyNonPositiveWageGapMissing ==
    script \in {"utility", "table_5b"} =>
        \A r \in Rows(df) :
            (HasCol(r, "gap") /\ r.STATEr = 1 /\ Le(r.WAGE_ST, Zero)) => isna(r.gap)

-----------------------------------------------------------------------------
(* Properties of the statistics, over the frames and series of SpecStats.  *)

(* The rows of group g in which price_var is present in both waves. *)
PricePairs(g, price_var) ==
    {i \in DOMAIN df : /\ df[i].nj = g
                       /\ notna(df[i][price_var])
                       /\ notna(df[i][Wave2Name(price_var)])}

RECURSIVE PriceChangeSum(_, _)
PriceChangeSum(S, price_var) ==
    IF S = {} THEN Zero
    ELSE LET i == CHOOSE j \in S : TRUE
         IN  Add(Sub(df[i][Wave2Name(price_var)], df[i][price_var]),
                 PriceChangeSum(S \ {i}, price_var))

(* The wave-2 FTE of table_3 after the closure rules of row 3. *)
FteAfter(row) ==
    IF row.STATUS2 \in TempClosedCodes THEN NaN
    ELSE IF row.STATUS2 = PermanentlyClosed THEN Zero
    ELSE row.FTE_W2

FtePairs(state) ==
    {i \in DOMAIN df : /\ df[i].STATE = state
                       /\ notna(df[i].FTE_W1)
                       /\ notna(FteAfter(df[i]))}

RECURSIVE FteChangeSum(_)
FteChangeSum(S) ==
    IF S = {} THEN Zero
    ELSE LET i == CHOOSE j \in S : TRUE
         IN  Add(Sub(FteAfter(df[i]), df[i].FTE_W1), FteChangeSum(S \ {i}))

GroupName(g) == IF g = 1 THEN "NJ" ELSE "PA"

(* C8, table_3 row 3: the mean change of a state is the mean of the        *)
(* per-store differences over exactly the stores whose wave-1 FTE and      *)
(* closure-adjusted wave-2 FTE are both present.                           *)
C8_Table3PairedChange ==
    (script = "table_3" /\ pc \in {"row3", "diffs"}) =>
        \A state \in {0, 1} :
            LET S    == FtePairs(state)
                stat == IF state = 1 THEN out.row3.nj ELSE out.row3.pa
            IN  /\ S = {} => isna(stat.mean)
                /\ S # {} => Mul(stat.mean, Num(Cardinality(S))) = FteChangeSum(S)

(* C8, table_10 balanced change: n is the number of rows in which the      *)
(* price variable is present before and after, and the mean is the mean of *)
(* the per-row differences of exactly those rows.                          *)
C8_Table10PairedChange ==
    (script = "table_10" /\ pc = "table") =>
        \A price_var \in PriceVars : \A g \in {0, 1} :
            LET S    == PricePairs(g, price_var)
                stat == out[price_var].change_balanced[GroupName(g)]
            IN  /\ stat.n = Cardinality(S)
                /\ S = {} => isna(stat.mean)
                /\ S # {} => Mul(stat.mean, Num(Cardinality(S))) = PriceChangeSum(S, price_var)

(* C8 as stated: the paired change statistic of a variable uses exactly    *)
(* the rows in which both its before value and its after value are         *)
(* present; n counts those rows and each contributes after - before.       *)
C8_PairedChangeUsesRowsWithBothPresent ==
    C8_Table3PairedChange /\ C8_Table10PairedChange

RECURSIVE SumPresentTo(_, _)
SumPresentTo(series, k) ==
    IF k = 0 THEN Zero
    ELSE Add(SumPresentTo(series, k - 1), IF isna(series[k]) THEN Zero ELSE series[k])

(* C9: mean_and_se (utility.calculate_mean_and_se and table_3's            *)
(* calculate_statistics_with_se) drops the missing values first: n is the  *)
(* number of non-missing values and the mean is their sum over n; with no  *)
(* non-missing value (empty or all-missing input) it returns               *)
(* (missing, missing, 0).                                                  *)
C9_MeanAndSeDropsMissing ==
    (script = "series" /\ pc \in {"util_stats", "t3_stats"}) =>
        /\ out.n = Cardinality({i \in DOMAIN arg : notna(arg[i])})
        /\ out.n = 0 => (isna(out.mean) /\ isna(out.se2))
        /\ out.n > 0 => Mul(out.mean, Num(out.n)) = SumPresentTo(arg, Len(arg))

C9_Witness ==
    /\ script = "series" /\ pc = "util_stats"
    /\ \E i \in DOMAIN arg : isna(arg[i])
    /\ Len(arg) = out.n + 1
    /\ out.n >= 2
    /\ IsFinite(out.se2) /\ Gt(out.se2, Zero)

DifferenceAsStated(d, a, b) ==
    IF isna(a.mean) \/ isna(b.mean) THEN isna(d.mean) /\ isna(d.se2)
    ELSE d.mean = Sub(a.mean, b.mean) /\ d.se2 = Add(a.se2, b.se2)

(* C10: a two-group difference is mean_a - mean_b with the square of its   *)
(* standard error se_a^2 + se_b^2; when either mean is missing both the    *)
(* difference and its standard error are missing (table_3's                *)
(* calculate_differences, table_10's calculate_difference and the          *)
(* all-data change of calculate_price_changes_stats).                      *)
C10_TwoGroupDifference ==
    /\ (script = "table_3" /\ pc = "diffs") =>
          /\ DifferenceAsStated(out.row3_diffs.nj_pa, out.row3.nj, out.row3.pa)
          /\ DifferenceAsStated(out.row3_diffs.low_high, out.row3.nj_low, out.row3.nj_high)
          /\ DifferenceAsStated(out.row3_diffs.mid_high, out.row3.nj_mid, out.row3.nj_high)
    /\ (script = "table_10" /\ pc = "table") =>
          \A price_var \in PriceVars :
              /\ \A blk \in {"wave1", "wave2", "change_all", "change_balanced"} :
                    DifferenceAsStated(out[price_var][blk].diff,
                                       out[price_var][blk].NJ, out[price_var][blk].PA)
              /\ \A grp \in {"PA", "NJ"} :
                    DifferenceAsStated(out[price_var].change_all[grp],
                                       out[price_var].wave2[grp], out[price_var].wave1[grp])

C10_Witness ==
    /\ script = "table_3" /\ pc = "diffs"
    /\ out.row3.nj = [mean |-> Rat(1, 2), se2 |-> Rat(1, 4)]
    /\ out.row3.pa = [mean |-> Num(1), se2 |-> Num(1)]
    /\ out.row3_diffs.nj_pa = [mean |-> Rat(-1, 2), se2 |-> Rat(5, 4)]

-----------------------------------------------------------------------------
(* Claims about the two-group tests (SpecStats, script "groups").          *)

NoValid(series) == Len(SelectSeq(series, notna)) = 0

AllValid(series) == Len(series) > 0 /\ \A i \in DOMAIN series : notna(series[i])

(* (count_a + count_b) / (n_a + n_b) is exactly 0 or 1 *)
PooledDegenerate(a, b) ==
    CountOnes(a) + CountOnes(b) \in {0, Len(a) + Len(b)}

ProportionResults == {"util_proportion", "t2_proportion", "T2a_proportion"}

(* C11: the two-proportion test statistic is missing whenever the pooled   *)
(* proportion of two non-empty groups is exactly 0 or 1; it is never 0 in  *)
(* that case.                                                              *)
C11_DegeneratePooledProportionIsMissing ==
    (/\ script = "groups" /\ pc \in ProportionResults
     /\ AllValid(arg.nj_data) /\ AllValid(arg.pa_data)
     /\ PooledDegenerate(arg.nj_data, arg.pa_data))
        => isna(out.t_stat)

GroupResults == ProportionResults \cup {"t2_stats", "util_ttest"}

(* C12: a group-statistics operation given a group with zero valid         *)
(* observations returns missing values for every output: it raises nothing *)
(* and reports no 0 (mean and standard error, the two-group comparisons    *)
(* and the proportion tests; the test on counts has an empty group when    *)
(* its size is 0).                                                         *)
C12_EmptyGroupGivesMissing ==
    /\ (/\ script = "groups" /\ pc \in GroupResults \ {"T2a_proportion"}
        /\ (NoValid(arg.nj_data) \/ NoValid(arg.pa_data)))
           => ("raised" \notin DOMAIN out /\ isna(out.t_stat))
    /\ (/\ script = "groups" /\ pc = "T2a_proportion"
        /\ (Len(arg.nj_data) = 0 \/ Len(arg.pa_data) = 0))
           => isna(out.t_stat)
    /\ (script = "series" /\ pc \in {"util_stats", "t3_stats"} /\ NoValid(arg))
           => (isna(out.mean) /\ isna(out.se2))

-----------------------------------------------------------------------------
(* Claims about the derived variables (Spec).                              *)

FteAsStated(full_time, part_time, managers, part_time_weight) ==
    Add(Add(full_time, managers), Mul(part_time_weight, part_time))

Wave1Present(r) == notna(r.EMPFT) /\ notna(r.EMPPT) /\ notna(r.NMGRS)

Wave2Present(r) == notna(r.EMPFT2) /\ notna(r.EMPPT2) /\ notna(r.NMGRS2)

FteWeighted == script = "utility" /\ pc \in {"fte", "reweighted"}

Table3Fte == script = "table_3" /\ pc = "fte"

(* C13 as stated: whenever the three inputs of a wave are present, the     *)
(* full-time-equivalent employment of that wave is full_time + managers +  *)
(* part_time_weight * part_time for the supplied weight, in both waves.    *)
C13_FteFormula ==
    /\ FteWeighted => \A i \in DOMAIN df :
          /\ Wave1Present(df[i]) =>
                df[i].EMPTOT = FteAsStated(df[i].EMPFT, df[i].EMPPT, df[i].NMGRS,
                                           arg.part_time_weight)
          /\ Wave2Present(df[i]) =>
                df[i].EMPTOT2 = FteAsStated(df[i].EMPFT2, df[i].EMPPT2, df[i].NMGRS2,
                                            arg.part_time_weight)
    /\ Table3Fte => \A i \in DOMAIN df :
          /\ Wave1Present(df[i]) =>
                df[i].FTE_W1 = FteAsStated(df[i].EMPFT, df[i].EMPPT, df[i].NMGRS, Half)
          /\ Wave2Present(df[i]) =>
                df[i].FTE_W2 = FteAsStated(df[i].EMPFT2, df[i].EMPPT2, df[i].NMGRS2, Half)

(* C13, amended: the formula holds for wave 1 and, in utility, for wave 2  *)
(* of every store that is not permanently closed (a permanently closed     *)
(* store has wave-2 employment 0 whatever its inputs); table_3 applies the *)
(* formula with weight 0.5 to both waves of every store.                   *)
C13_FteFormulaUnlessClosed ==
    /\ FteWeighted => \A i \in DOMAIN df :
          /\ Wave1Present(df[i]) =>
                df[i].EMPTOT = FteAsStated(df[i].EMPFT, df[i].EMPPT, df[i].NMGRS,
                                           arg.part_time_weight)
          /\ (Wave2Present(df[i]) /\ df[i].STATUS2 # PermanentlyClosed) =>
                df[i].EMPTOT2 = FteAsStated(df[i].EMPFT2, df[i].EMPPT2, df[i].NMGRS2,
                                            arg.part_time_weight)
          /\ df[i].STATUS2 = PermanentlyClosed => df[i].EMPTOT2 = Zero
    /\ Table3Fte => \A i \in DOMAIN df :
          /\ Wave1Present(df[i]) =>
                df[i].FTE_W1 = FteAsStated(df[i].EMPFT, df[i].EMPPT, df[i].NMGRS, Half)
          /\ Wave2Present(df[i]) =>
                df[i].FTE_W2 = FteAsStated(df[i].EMPFT2, df[i].EMPPT2, df[i].NMGRS2, Half)

C13_Witness ==
    /\ script = "utility" /\ pc = "reweighted" /\ arg.part_time_weight = Rat(2, 5)
    /\ df[1].EMPPT = Num(1) /\ df[1].EMPPT2 = Num(1) /\ df[1].STATUS2 = 1
    /\ df[1].EMPTOT = Rat(12, 5) /\ df[1].EMPTOT2 = Rat(12, 5)

PropChangeAsStated(fte1, fte2) == Div(Mul(Num(2), Sub(fte2, fte1)), Add(fte2, fte1))

ProportionalChangeDone ==
    \/ script = "utility" /\ pc = "pchempc"
    \/ script = "table_5b" /\ pc = "derived"

(* C14: right after the proportional change is computed, a store with both *)
(* FTE values present and wave-2 FTE not 0 has the proportional change     *)
(* 2*(fte2 - fte1)/(fte2 + fte1); the floor -1 replaces the value only     *)
(* where wave-2 FTE is 0 (utility.calculate_proportional_change and        *)
(* replicate_table5).                                                      *)
C14_ProportionalChangeFormula ==
    ProportionalChangeDone => \A i \in DOMAIN df :
        (notna(df[i].EMPTOT) /\ notna(df[i].EMPTOT2) /\ ~Eq(df[i].EMPTOT2, Zero)) =>
            df[i].PCHEMPC = PropChangeAsStated(df[i].EMPTOT, df[i].EMPTOT2)

C14_Witness ==
    /\ script = "utility" /\ pc = "pchempc"
    /\ df[1].EMPTOT = Zero /\ df[1].EMPTOT2 = Rat(5, 2)
    /\ df[1].PCHEMPC = Num(2)

FractionAsStated(full_time, fte_total) ==
    IF Gt(fte_total, Zero) THEN Mul(Div(full_time, fte_total), Hundred) ELSE NaN

(* C15: the fraction of full-time workers of a wave is full_time /         *)
(* fte_total * 100 when that wave's full-time-equivalent total is above 0  *)
(* and missing otherwise, for wave 1 and for wave 2 (utility's FRACFT and  *)
(* FRACFT2 over EMPTOT and EMPTOT2, Table_2's PCT_FT1 and PCT_FT2 over     *)
(* FTE1 and FTE2).                                                         *)
C15_FractionFullTime ==
    /\ (script = "utility" /\ pc = "fracft") => \A i \in DOMAIN df :
          /\ df[i].FRACFT = FractionAsStated(df[i].EMPFT, df[i].EMPTOT)
          /\ df[i].FRACFT2 = FractionAsStated(df[i].EMPFT2, df[i].EMPTOT2)
    /\ (script = "Table_2" /\ pc = "columns") => \A i \in DOMAIN df :
          /\ df[i].PCT_FT1 = FractionAsStated(df[i].EMPFT, df[i].FTE1)
          /\ df[i].PCT_FT2 = FractionAsStated(df[i].EMPFT2, df[i].FTE2)

(* The same for utility alone, where it holds. *)
C15_UtilityFractionFullTime ==
    (script = "utility" /\ pc = "fracft") => \A i \in DOMAIN df :
        /\ df[i].FRACFT = FractionAsStated(df[i].EMPFT, df[i].EMPTOT)
        /\ df[i].FRACFT2 = FractionAsStated(df[i].EMPFT2, df[i].EMPTOT2)

IndicatorAsStated(wage, target) ==
    IF isna(wage) THEN NaN
    ELSE IF Lt(AbsVal(Sub(wage, target)), Rat(1, 100)) THEN Num(100) ELSE Num(0)

(* C16: the binary wage indicator for a target wage is 100 when            *)
(* |wage - target| < 0.01, 0 when the wage is present and differs from the *)
(* target by at least 0.01, and missing when the wage is missing, so that  *)
(* it is never anything but 0, 100 or missing (Table_2's                   *)
(* calculate_wage_percentage, and calculate_wage_percentages of table_2    *)
(* and of utility).                                                        *)
C16_BinaryWageIndicator ==
    /\ (script = "Table_2" /\ pc = "columns") => \A i \in DOMAIN df :
          /\ df[i].WAGE_425_1 = IndicatorAsStated(df[i].WAGE_ST, Rat(425, 100))
          /\ df[i].WAGE_425_2 = IndicatorAsStated(df[i].WAGE_ST2, Rat(425, 100))
          /\ df[i].WAGE_505_2 = IndicatorAsStated(df[i].WAGE_ST2, Rat(505, 100))
    /\ (script = "wage_pct" /\ pc = "t2_wage_pct") => \A i \in DOMAIN df :
          /\ out.wage_425_pct[i] = IndicatorAsStated(WaveWage(df[i], arg.wave), Rat(425, 100))
          /\ arg.wave = "2" =>
                out.wage_505_pct[i] = IndicatorAsStated(WaveWage(df[i], arg.wave), Rat(505, 100))
    /\ (script = "wage_pct" /\ pc = "util_wage_pct") => \A i \in DOMAIN df :
          out.wage_pct[i] = IndicatorAsStated(WaveWage(df[i], arg.wave), arg.target_wage)

-----------------------------------------------------------------------------
(* Claims about meal prices (SpecStats).                                   *)

MealAsStated(soda, fries, entree) ==
    IF isna(soda) \/ isna(fries) \/ isna(entree) THEN NaN
    ELSE Add(Add(soda, fries), entree)

(* C17: the price of a meal is the sum of the prices of soda, fries and    *)
(* entree of the wave, and it is missing exactly when one of the three is  *)
(* missing (utility's PMEAL and PMEAL2, table_10's PTOTAL and PTOTAL2,     *)
(* Table_2's MEAL_PRICE1 and MEAL_PRICE2).                                 *)
C17_MealPrice ==
    /\ (script = "table_10" /\ pc \in {"derived", "changes", "table"}) =>
          \A i \in DOMAIN df :
              /\ df[i].PMEAL = MealAsStated(df[i].PSODA, df[i].PFRY, df[i].PENTREE)
              /\ df[i].PMEAL2 = MealAsStated(df[i].PSODA2, df[i].PFRY2, df[i].PENTREE2)
              /\ isna(df[i].PMEAL) <=>
                    (isna(df[i].PSODA) \/ isna(df[i].PFRY) \/ isna(df[i].PENTREE))
    /\ (script = "table_10" /\ pc \in {"changes", "table"}) =>
          \A i \in DOMAIN df :
              /\ df[i].PTOTAL = MealAsStated(df[i].PSODA, df[i].PFRY, df[i].PENTREE)
              /\ df[i].PTOTAL2 = MealAsStated(df[i].PSODA2, df[i].PFRY2, df[i].PENTREE2)
    /\ (script = "Table_2" /\ pc = "columns") =>
          \A i \in DOMAIN df :
              /\ df[i].MEAL_PRICE1 = MealAsStated(df[i].PSODA, df[i].PFRY, df[i].PENTREE)
              /\ df[i].MEAL_PRICE2 = MealAsStated(df[i].PSODA2, df[i].PFRY2, df[i].PENTREE2)

C17_Witness ==
    /\ script = "table_10" /\ pc = "changes" /\ Len(df) = 1
    /\ isna(df[1].PFRY) /\ isna(df[1].PMEAL) /\ isna(df[1].PTOTAL)
    /\ df[1].PSODA2 = Num(2) /\ df[1].PMEAL2 = Num(4) /\ df[1].PTOTAL2 = Num(4)

-----------------------------------------------------------------------------
(* Claims about the chain and state indicators (Spec).                     *)

ChainIndicators == <<"bk", "kfc", "roys", "wendys">>

ChainDone ==
    script = "utility" /\ pc \in {"chain", "state", "gap", "meal", "fracft", "pchempc",
                                   "derived", "reweighted"}

(* C18: once the chain indicators are computed, every store whose chain    *)
(* code is 1, 2, 3 or 4 has exactly one of bk, kfc, roys, wendys equal to  *)
(* 1, the one of its code, and the other three equal to 0.                 *)
C18_ExactlyOneChainIndicator ==
    ChainDone => \A i \in DOMAIN df :
        df[i].CHAINr \in 1..4 =>
            \A k \in 1..4 :
                df[i][ChainIndicators[k]] = IF k = df[i].CHAINr THEN 1 ELSE 0

C18_Witness ==
    /\ script = "utility" /\ pc = "chain"
    /\ df[1].CHAINr = 4
    /\ df[1].wendys = 1 /\ df[1].bk = 0 /\ df[1].kfc = 0 /\ df[1].roys = 0

GapDone ==
    script = "utility" /\ pc \in {"gap", "meal", "fracft", "pchempc", "derived",
                                   "reweighted", "wage_groups", "filtered"}

(* A wage the wage-gap computation gives a New Jersey store a gap for. *)
GapWage(wage) == Gt(wage, Zero) /\ Lt(wage, Rat(505, 100))

(* A wage that falls in one of the three New Jersey wage groups. *)
GroupWage(wage) ==
    \/ Eq(wage, Rat(425, 100))
    \/ Ge(wage, Rat(426, 100)) /\ Le(wage, Rat(499, 100))
    \/ Ge(wage, Rat(500, 100))

InWageGroup(r) == r.NJ_wage_425 = 1 \/ r.NJ_wage_426_499 = 1 \/ r.NJ_wage_500plus = 1

(* C19: within one derived record set a store is New Jersey for the wage   *)
(* gap, for the wage-group indicators and for the NJ/PA filters exactly    *)
(* when its nj indicator is 1, and Pennsylvania exactly when it is 0: the  *)
(* indicators are 0/1 and complementary, a gap or a wage group is given    *)
(* only to nj = 1 stores and to each of them with an eligible wage, and    *)
(* the NJ filter keeps the nj = 1 stores, the PA filter the nj = 0 stores. *)
C19_StateClassifiedAlike ==
    /\ GapDone => \A i \in DOMAIN df :
          /\ df[i].nj \in {0, 1} /\ df[i].pa = 1 - df[i].nj
          /\ (df[i].nj = 1 /\ GapWage(df[i].WAGE_ST)) => df[i].gap # Zero
          /\ df[i].nj = 0 => df[i].gap = Zero
    /\ (script = "utility" /\ pc = "wage_groups") => \A i \in DOMAIN df :
          /\ (df[i].nj = 1 /\ GroupWage(df[i].WAGE_ST)) => InWageGroup(df[i])
          /\ df[i].nj = 0 => ~InWageGroup(df[i])
    /\ (script = "utility" /\ pc = "filtered") =>
          /\ \A i \in DOMAIN out : out[i].nj = (IF arg.state = "nj" THEN 1 ELSE 0)
          /\ \A i \in DOMAIN df :
                (df[i].nj = (IF arg.state = "nj" THEN 1 ELSE 0)) =>
                    \E j \in DOMAIN out : out[j] = df[i]

C19_Witness ==
    /\ script = "utility" /\ pc = "filtered" /\ arg.state = "pa"
    /\ Len(out) = 1 /\ out[1].nj = 0 /\ out[1].gap = Zero
    /\ out[1].WAGE_ST = Rat(425, 100)

-----------------------------------------------------------------------------
(* Claims about the frame of the caller (SpecStats).                       *)

SelectionAndStatistics ==
    {"sample", "balanced", "sample2", "rows12", "row3", "row4", "row5"}

(* C20: a call of create_analysis_sample (either policy), of               *)
(* create_balanced_sample, of prepare_sample_with_temp_closed or of table  *)
(* 3's process_rows_1_2, process_row_3, process_row_4, process_row_5       *)
(* leaves every field of every record of the caller's data as it was.      *)
C20_InputNotMutated ==
    [][pc' \in SelectionAndStatistics => df' = df]_vars

(* Row 4 has counted a permanently closed store with wave-2 FTE 0 while    *)
(* the caller's record still has the wave-2 FTE computed from its counts.  *)
C20_Witness ==
    /\ script = "table_3" /\ pc = "row4" /\ Len(df) = 1
    /\ df[1].permanently_closed /\ df[1].STATE = 1
    /\ df[1].FTE_W1 = Rat(5, 2) /\ df[1].FTE_W2 = Rat(7, 2)
    /\ "FTE_change" \notin DOMAIN df[1]
    /\ out.row4.nj.mean = Rat(-5, 2)

-----------------------------------------------------------------------------
(* C21: a table cell whose mean or standard error is missing is rendered   *)
(* as the single character ".", never as the empty string or as "nan", and *)
(* a cell with both present is rendered as the value followed by the       *)
(* standard error in parentheses.                                          *)
FormattedCell == script = "cells" /\ pc \in {"t3_cell", "util_cell", "t6_cell"}

C21_MissingCellIsADot ==
    FormattedCell =>
        IF isna(arg.mean) \/ isna(arg.se)
        THEN out = Literal(".")
        ELSE out.text = "value (se)"

-----------------------------------------------------------------------------
(* C22: the joint significance test returns missing when none of the       *)
(* requested variables is a parameter of the fitted model; otherwise it    *)
(* tests exactly the requested variables that are parameters, with one     *)
(* restriction row per such variable selecting only its coefficient.       *)
JointTestDone == script = "f_test" /\ pc \in {"util_f_test", "t4_f_test"}

RequestedParameters ==
    {var \in Rows(arg.control_vars) : Contains(arg.param_names, var)}

SelectedBy(row) == {c \in DOMAIN row : row[c] # 0}

C22_JointTestRestrictions ==
    JointTestDone =>
        IF RequestedParameters = {}
        THEN out = None
        ELSE /\ DOMAIN out = {"f_test"}
             /\ Len(out.f_test) = Cardinality(RequestedParameters)
             /\ \A i \in DOMAIN out.f_test :
                    /\ DOMAIN out.f_test[i] = DOMAIN arg.param_names
                    /\ \E c \in DOMAIN arg.param_names :
                          /\ SelectedBy(out.f_test[i]) = {c}
                          /\ out.f_test[i][c] = 1
                          /\ arg.param_names[c] \in RequestedParameters
             /\ { arg.param_names[c] : c \in UNION {SelectedBy(out.f_test[i]) :
                                                     i \in DOMAIN out.f_test} }
                    = RequestedParameters

C22_Witness ==
    /\ JointTestDone
    /\ Cardinality(RequestedParameters) = 2
    /\ Len(arg.param_names) = 4
    /\ out.f_test[1][4] = 1

C22_WitnessNone ==
    JointTestDone /\ arg.control_vars # <<>> /\ out = None

-----------------------------------------------------------------------------
(* C23: when the input data file is at none of the paths a table script    *)
(* searches, the run ends with a nonzero exit code or an uncaught error:   *)
(* it never ends with exit code 0 and never computes or writes a table.    *)
SearchedPaths ==
    IF script = "table_2_main" THEN {t2_data_file} ELSE Rows(t3_possible_paths)

DataFileNotLocated ==
    /\ script \in {"table_3_main", "table_2_main"}
    /\ arg.existing \cap SearchedPaths = {}

C23_MissingDataFileFailsTheRun ==
    DataFileNotLocated =>
        /\ pc # "located"
        /\ pc = "exited" => out.exit_code # 0 /\ ~out.table

-----------------------------------------------------------------------------
(* C24: in Table 5 specifications 4 and 5 (part-time weight 0.4 and 0.6)   *)
(* both response variables of the row's regressions, the employment change *)
(* and the proportional employment change, are computed from FTE totals    *)
(* that use the row's part-time weight, none from totals with weight 0.5.  *)
SensitivityRows ==
    IF script \in {"utility", "table_5b"} /\ pc = "spec45" THEN Rows(sample) ELSE {}

WeightedWave1(r, w) == FteSum(r.EMPFT, r.EMPPT, r.NMGRS, w)

(* The wave-2 total with the weight, as counted or as 0 for a closed store *)
WeightedWave2(r, w) ==
    {FteSum(r.EMPFT2, r.EMPPT2, r.NMGRS2, w)}
        \cup (IF r.STATUS2 = PermanentlyClosed THEN {Zero} ELSE {})

WeightedProportionalChange(e1, e2) ==
    IF Eq(e2, Zero) THEN MinusOne ELSE PropChange(e1, e2)

C24_ResponsesUseTheRowsWeight ==
    \A r \in SensitivityRows :
        \E e2 \in WeightedWave2(r, arg.part_time_weight) :
            /\ r[arg.change] =
                  Sub(e2, WeightedWave1(r, arg.part_time_weight))
            /\ r[arg.proportional] =
                  WeightedProportionalChange(WeightedWave1(r, arg.part_time_weight), e2)

(* The employment change of replicate.py does use the row's weight. *)
C24_ChangeUsesTheRowsWeight ==
    \A r \in SensitivityRows :
        \E e2 \in WeightedWave2(r, arg.part_time_weight) :
            r[arg.change] = Sub(e2, WeightedWave1(r, arg.part_time_weight))

-----------------------------------------------------------------------------
(* C25: the stores of Table 3's row 5 are exactly the stores of row 4 plus *)
(* the temporarily closed stores (status 2, 4 or 5) that have wave-1 FTE,  *)
(* whose wave-2 FTE is set to 0 in row 5 only; a store of both rows has    *)
(* the same employment change in both, and a permanently closed store has  *)
(* wave-2 FTE 0 in both.                                                   *)
Table3Generated == script = "table_3" /\ pc = "table3"

TempClosedWithWave1 ==
    {i \in DOMAIN df : df[i].STATUS2 \in {2, 4, 5} /\ notna(df[i].FTE_W1)}

C25_Row5IsRow4PlusTempClosed ==
    Table3Generated =>
        /\ DOMAIN sample.row5 = DOMAIN sample.row4 \cup TempClosedWithWave1
        /\ DOMAIN sample.row4 \cap TempClosedWithWave1 = {}
        /\ \A i \in TempClosedWithWave1 :
              /\ sample.row5[i].FTE_W2 = Zero
              /\ sample.row5[i].FTE_change = Neg(df[i].FTE_W1)
        /\ \A i \in DOMAIN sample.row4 :
              /\ sample.row5[i].FTE_change = sample.row4[i].FTE_change
              /\ df[i].STATUS2 = PermanentlyClosed =>
                    sample.row4[i].FTE_W2 = Zero /\ sample.row5[i].FTE_W2 = Zero

C25_Witness ==
    /\ Table3Generated
    /\ \E i \in TempClosedWithWave1 : df[i].STATUS2 = 5 /\ notna(df[i].FTE_W2)
    /\ \E i \in DOMAIN sample.row4 : df[i].STATUS2 = PermanentlyClosed
    /\ out.row5 # out.row4

-----------------------------------------------------------------------------
-----------------------------------------------------------------------------
(* C26: in every sample made of create_basic_derived_variables' output by  *)
(* create_analysis_sample, with either treatment of temporarily closed     *)
(* stores, a retained row whose EMPTOT2 is 0 has PCHEMPC = -1 and          *)
(* DEMP = -EMPTOT: a temporarily closed store set to 0 keeps no stale or   *)
(* missing PCHEMPC.                                                        *)
AnalysisSampleRows ==
    IF script = "utility" /\ pc = "sample" THEN Rows(sample) ELSE {}

C26_ZeroWave2MeansFullLoss ==
    \A r \in AnalysisSampleRows :
        Eq(r.EMPTOT2, Zero) => r.PCHEMPC = MinusOne /\ r.DEMP = Neg(r.EMPTOT)

(* The employment change alone does follow the zeroed total. *)
C26_ZeroWave2ChangeIsMinusWave1 ==
    \A r \in AnalysisSampleRows : Eq(r.EMPTOT2, Zero) => r.DEMP = Neg(r.EMPTOT)

(* table_5's own prepare_sample_with_temp_closed resets PCHEMPC. *)
C26_Table5SampleResetsThePercentage ==
    script = "utility" /\ pc = "sample2" =>
        \A r \in Rows(sample) :
            Eq(r.EMPTOT2, Zero) => r.PCHEMPC = MinusOne /\ r.DEMP = Neg(r.EMPTOT)

-----------------------------------------------------------------------------
(* C28: every row of create_analysis_sample's result is a store of its     *)
(* input, has a non-missing DEMP, and is permanently closed (CLOSED = 1)   *)
(* or has a non-missing dwage; with include_temp_closed=False no store of  *)
(* the sample has STATUS2 = 2, and with include_temp_closed=True every     *)
(* store with STATUS2 = 2 and non-missing wave-1 FTE is in the sample.     *)
AnalysisSampleDone == script \in {"utility", "table_4"} /\ pc = "sample"

(* The columns create_analysis_sample writes for a temporarily closed      *)
(* store; a store is the same store when all other columns agree.          *)
WrittenForTempClosed == {"EMPFT2", "EMPPT2", "NMGRS2", "EMPTOT2", "DEMP", "dwage"}

SameStore(r, s) ==
    /\ DOMAIN r = DOMAIN s
    /\ \A c \in DOMAIN s \ WrittenForTempClosed : r[c] = s[c]

C28_AnalysisSampleRows ==
    AnalysisSampleDone =>
        /\ \A r \in Rows(sample) :
              /\ \E s \in Rows(df) : SameStore(r, s) /\ (r.STATUS2 # 2 => r = s)
              /\ notna(r.DEMP)
              /\ r.CLOSED = 1 \/ notna(r.dwage)
        /\ script = "utility" /\ ~arg.include_temp_closed =>
              \A r \in Rows(sample) : r.STATUS2 # 2
        /\ script = "utility" /\ arg.include_temp_closed =>
              \A s \in Rows(df) :
                  s.STATUS2 = 2 /\ notna(s.EMPTOT) =>
                      \E r \in Rows(sample) : SameStore(r, s)

C28_Witness ==
    /\ script = "utility" /\ pc = "sample" /\ arg.include_temp_closed
    /\ \E r \in Rows(sample) : r.STATUS2 = 2 /\ r \notin Rows(df)

C28_WitnessDropped ==
    /\ AnalysisSampleDone
    /\ sample = <<>>
    /\ \E s \in Rows(df) : isna(s.DEMP) \/ (s.CLOSED = 0 /\ isna(s.dwage))

-----------------------------------------------------------------------------
(* C29: once calculate_fte_employment has run, no later step of            *)
(* create_basic_derived_variables undoes the zero of a permanently closed  *)
(* store (STATUS2 = 3), and after the last step such a store has           *)
(* EMPTOT2 = 0, CLOSED = 1, PCHEMPC = -1, FRACFT2 missing and              *)
(* DEMP = -EMPTOT, missing exactly when the wave-1 FTE is missing,         *)
(* whatever its raw wave-2 fields were.                                    *)
PipelineSteps ==
    {"fte", "chain", "state", "gap", "meal", "fracft", "pchempc", "derived"}

PermanentlyClosedStores ==
    IF script = "utility" /\ pc \in PipelineSteps
    THEN {r \in Rows(df) : r.STATUS2 = PermanentlyClosed} ELSE {}

C29_ClosedStoreAfterThePipeline ==
    \A r \in PermanentlyClosedStores :
        /\ r.EMPTOT2 = Zero
        /\ pc = "derived" =>
              /\ r.CLOSED = 1
              /\ r.PCHEMPC = MinusOne
              /\ isna(r.FRACFT2)
              /\ r.DEMP = Neg(r.EMPTOT)
              /\ isna(r.DEMP) <=> isna(r.EMPTOT)

(* The zero is kept from step to step. *)
C29_ZeroIsKept ==
    [][(script = "utility" /\ pc \in PipelineSteps /\ pc' \in PipelineSteps) =>
          \A i \in DOMAIN df :
              df[i].STATUS2 = PermanentlyClosed => df'[i].EMPTOT2 = Zero]_vars

C29_Witness ==
    /\ script = "utility" /\ pc = "derived"
    /\ \E r \in Rows(df) :
          /\ r.STATUS2 = PermanentlyClosed
          /\ r.EMPFT2 = Num(1) /\ r.EMPPT2 = Num(1)
          /\ notna(r.EMPTOT) /\ r.PCHEMPC = MinusOne

C29_WitnessMissingWave1 ==
    /\ script = "utility" /\ pc = "derived"
    /\ \E r \in Rows(df) :
          r.STATUS2 = PermanentlyClosed /\ isna(r.EMPTOT) /\ r.PCHEMPC = MinusOne

-----------------------------------------------------------------------------
(* C30: the three New Jersey wage groups (wage = 4.25, 4.26 to 4.99,       *)
(* >= 5.00) are mutually exclusive for every record, no Pennsylvania store *)
(* is in any group, every New Jersey store whose wave-1 starting wage is a *)
(* whole number of cents >= 4.25 is in exactly one group, and a New Jersey *)
(* store with a missing wage or a wage below 4.25 is in none.              *)
WageGroupsDone ==
    \/ script = "utility" /\ pc = "wage_groups"
    \/ script = "table_3" /\ pc = "groups"

(* The groups a record is in: the indicator columns of utility that are 1, *)
(* the wage_group label of table_3.                                        *)
GroupsOf(r) ==
    IF script = "utility"
    THEN {g \in {"NJ_wage_425", "NJ_wage_426_499", "NJ_wage_500plus"} : r[g] = 1}
    ELSE {r.wage_group} \ {"nan"}

StateOf(r) == IF script = "utility" THEN r.STATEr ELSE r.STATE

WholeCents(w) == notna(w) /\ (100 * w.n) % w.d = 0

C30_WageGroupsPartitionNewJersey ==
    WageGroupsDone =>
        \A r \in Rows(df) :
            /\ Cardinality(GroupsOf(r)) <= 1
            /\ StateOf(r) = 0 => GroupsOf(r) = {}
            /\ StateOf(r) = 1 /\ WholeCents(r.WAGE_ST) /\ Ge(r.WAGE_ST, Rat(425, 100)) =>
                  Cardinality(GroupsOf(r)) = 1
            /\ StateOf(r) = 1 /\ (isna(r.WAGE_ST) \/ Lt(r.WAGE_ST, Rat(425, 100))) =>
                  GroupsOf(r) = {}

C30_Witness ==
    /\ script = "table_3" /\ pc = "groups"
    /\ \E r \in Rows(df) : r.STATE = 1 /\ r.WAGE_ST = Rat(499, 100) /\ GroupsOf(r) = {"mid"}

C30_WitnessUtility ==
    /\ script = "utility" /\ pc = "wage_groups"
    /\ \E r \in Rows(df) : r.STATEr = 1 /\ r.WAGE_ST = Rat(426, 100)
                            /\ GroupsOf(r) = {"NJ_wage_426_499"}

====
